---- MODULE Spec2Model ----
(***************************************************************************)
(* RunnerApp: the 7-week 5K training plan (src/src/training_plan.py), the  *)
(* distance models of src/analyze_training_plan.py and the JSON log store. *)
(*                                                                         *)
(* Units.  Minutes are held in tenths of a minute (1.5 min = 15), so that  *)
(* every duration of the plan is an integer.  Speed reduction factors are  *)
(* held in thousandths (0.729 = 729).  Distances are held in 1/600 m, the  *)
(* unit in which minutes/10 * km/h * factor/1000 * 1000/60 is an integer.  *)
(* Paces of the weekly log are held in tenths of min/km.                   *)
(***************************************************************************)
EXTENDS Integers, Sequences, FiniteSets, TLC

VARIABLES
    pc,                \* position in TrainingPlan.__init__ / generate_detailed_sessions
    interval_progress, \* self.interval_progress: sequence of <<run, walk>>
    session_count,     \* argument of generate_detailed_sessions
    session_idx,       \* loop variable of generate_detailed_sessions
    workout_sessions,  \* the list being built / returned
    base_plan,         \* self.base_plan: week -> list of day entries
    dsession,          \* one session dict as built by extract_session_data
    dspeed,            \* <<base_run_speed_kmh, walk_speed_m_per_min>>
    fatigue,           \* result of calculate_distances_with_fatigue on dsession
    simple,            \* result of calculate_distances on dsession
    session_state,     \* st.session_state of the dashboard: plan table, pace settings
    result,            \* what the last dashboard handler or tool call produced
    file,              \* the log file: [exists, content]
    now,               \* wall clock in seconds (datetime.now())
    op,                \* the last operation of the log store and its arguments
    ret,               \* what the last operation returned or raised
    logged,            \* history: weeks passed to log_week since the last reset
    export_file,       \* the file export_logs writes to
    writer,            \* each concurrent log_week call: its position and locals
    schedule           \* history: the loads and saves of those calls, in order

svars == <<pc, interval_progress, session_count, session_idx, workout_sessions,
          base_plan>>
dvars == <<dsession, dspeed, fatigue, simple, session_state, result>>
lvars == <<file, now, op, ret, logged, export_file>>
cvars == <<writer, schedule>>
vars == <<svars, dvars, lvars, cvars>>

(***************************************************************************)
(* Bounds of the model.                                                    *)
(***************************************************************************)
MaxCount == 32      \* largest session_count passed to generate_detailed_sessions
MaxSets == 3        \* largest set count of a session handed to the distance models
MaxEntries == 2     \* largest number of weeks held in the log file
MaxClock == 1       \* the clock stops advancing here
MaxRows == 23       \* largest number of rows of the dashboard's plan table

\* Python's None for the optional numeric fields of a weekly log.
None == -1

(***************************************************************************)
(* TrainingPlan.__init__: the interval table.                              *)
(***************************************************************************)
\* get_walk_time(session_num), in tenths of a minute.
get_walk_time(session_num) ==
    IF session_num <= 6 THEN 20
    ELSE IF session_num <= 12 THEN 15
    ELSE IF session_num <= 18 THEN 10
    ELSE 5

\* The table built by the loop `for session in range(1, 22)`.
FormulaTable ==
    [session \in 1..21 |-> <<10 + (session - 1) * 5, get_walk_time(session)>>]

HandTableMut ==
    [session \in 1..21 |-> <<10 + (session - 1) * 5, get_walk_time(session)>>]

\* The literal list assigned to interval_progress afterwards.
HandTable ==
    << <<10, 20>>, <<20, 20>>, <<30, 20>>,
       <<40, 30>>, <<50, 30>>, <<80, 50>>,
       <<60, 30>>, <<80, 30>>, <<100, 30>>,
       <<60, 20>>, <<280, 0>>, <<70, 20>>,
       <<50, 15>>, <<320, 0>>, <<80, 20>>,
       <<40, 10>>, <<350, 0>>, <<90, 20>>,
       <<40, 15>>, <<200, 0>>, <<20, 10>> >>

(***************************************************************************)
(* generate_detailed_sessions and its nested compute_sets.                 *)
(***************************************************************************)
\* int(x) for x given in halves: truncation toward zero.
PyIntOfHalves(h) == IF h >= 0 THEN h \div 2 ELSE -((-h) \div 2)

Max(a, b) == IF a >= b THEN a ELSE b

custom_sets_Mut ==
    (1 :> 16) @@ (2 :> 13) @@ (3 :> 10) @@
    (4 :> 7) @@ (5 :> 6) @@ (6 :> 5) @@
    (7 :> 6) @@ (8 :> 5) @@ (9 :> 4)

\* custom_sets of generate_detailed_sessions.compute_sets.
custom_sets ==
    (1 :> 16) @@ (2 :> 12) @@ (3 :> 10) @@
    (4 :> 6) @@ (5 :> 4) @@ (6 :> 3) @@
    (7 :> 5) @@ (8 :> 3) @@ (9 :> 2)

\* The weeks 5+ tail of compute_sets; base_sets is computed in halves.
TaperSetsMut(session_idx_, week) ==
    IF week = 5 THEN Max(6, PyIntOfHalves(16 - (session_idx_ - 13)))
    ELSE IF week = 6 THEN Max(5, PyIntOfHalves(14 - (session_idx_ - 16)))
    ELSE PyIntOfHalves(10 - (session_idx_ - 19))

TaperSets(session_idx_, week) ==
    IF week = 5 THEN Max(6, PyIntOfHalves(16 - (session_idx_ - 13)))
    ELSE IF week = 6 THEN Max(5, PyIntOfHalves(14 - (session_idx_ - 16)))
    ELSE Max(3, PyIntOfHalves(10 - (session_idx_ - 19)))

compute_sets_Mut(table, session_idx_, run_min, week) ==
    IF run_min = 0 THEN 1
    ELSE IF session_idx_ \in DOMAIN custom_sets THEN custom_sets[session_idx_]
    ELSE IF week = 4 /\ session_idx_ = 10 THEN 6
    ELSE IF week = 4 /\ session_idx_ = 11 THEN 1
    ELSE IF week = 4 /\ session_idx_ = 12 THEN 5
    ELSE TaperSets(session_idx_, week)

\* compute_sets(session_idx, run_min, week) of generate_detailed_sessions,
\* reading the table `table` for self.interval_progress.
compute_sets(table, session_idx_, run_min, week) ==
    IF run_min = 0 THEN 1
    ELSE IF session_idx_ <= Len(table) /\ table[session_idx_][2] = 0 THEN 1
    ELSE IF session_idx_ \in DOMAIN custom_sets THEN custom_sets[session_idx_]
    ELSE IF week = 4 /\ session_idx_ = 10 THEN 6
    ELSE IF week = 4 /\ session_idx_ = 11 THEN 1
    ELSE IF week = 4 /\ session_idx_ = 12 THEN 5
    ELSE TaperSets(session_idx_, week)

WeekOfMut(session_idx_) == (session_idx_ \div 3) + 1

\* (session_idx - 1) // 3 + 1
WeekOf(session_idx_) == ((session_idx_ - 1) \div 3) + 1

\* (session_idx - 1) % 3 + 1
DayInWeek(session_idx_) == ((session_idx_ - 1) % 3) + 1

day_mapping == (1 :> 1) @@ (2 :> 2) @@ (3 :> 4)

DayNames == <<"Mon", "Tue", "Thu">>

\* total_run_time = 20 + (session_idx - len(self.interval_progress)) * 2
ExtrapolatedRun(table, session_idx_) == 200 + (session_idx_ - Len(table)) * 20

\* The (run_min, walk_min, sets, workout_type) chosen by the loop body.
Workout(table, session_idx_) ==
    IF session_idx_ > Len(table) THEN
        IF session_idx_ % 2 = 1 THEN
            [run_min |-> 100, walk_min |-> 30,
             sets |-> compute_sets(table, session_idx_, 100, WeekOf(session_idx_)),
             workout_type |-> "long_intervals"]
        ELSE
            [run_min |-> ExtrapolatedRun(table, session_idx_), walk_min |-> 0,
             sets |-> 1, workout_type |-> "continuous_with_breaks"]
    ELSE
        [run_min |-> table[session_idx_][1], walk_min |-> table[session_idx_][2],
         sets |-> compute_sets(table, session_idx_, table[session_idx_][1],
                               WeekOf(session_idx_)),
         workout_type |-> IF table[session_idx_][2] = 0 THEN "continuous_run"
                          ELSE "interval_training"]

TotalWorkoutTimeMut(run_min, walk_min, sets) ==
    IF walk_min > 0 THEN run_min * sets + walk_min * (sets - 1) ELSE run_min

\* (run_min + walk_min) * sets if walk_min > 0 else run_min
TotalWorkoutTime(run_min, walk_min, sets) ==
    IF walk_min > 0 THEN (run_min + walk_min) * sets ELSE run_min

\* The dict appended to workout_sessions for one session_idx.
SessionRecord(table, session_idx_) ==
    LET w == Workout(table, session_idx_)
        day_in_week == DayInWeek(session_idx_)
    IN  [session |-> session_idx_,
         week |-> WeekOf(session_idx_),
         day |-> day_mapping[day_in_week],
         day_name |-> DayNames[day_in_week],
         run_minutes |-> w.run_min,
         walk_minutes |-> w.walk_min,
         sets |-> w.sets,
         total_run_time |-> w.run_min * w.sets,
         total_workout_time |-> TotalWorkoutTime(w.run_min, w.walk_min, w.sets),
         workout_type |-> w.workout_type,
         focus |-> "muscle_endurance",
         target_hr_run |-> IF day_in_week = 2 THEN "140-160 bpm" ELSE "130-150 bpm",
         target_hr_walk |-> "100-120 bpm"]

(***************************************************************************)
(* TrainingPlan.__init__: compute_sets and the base plan.                  *)
(***************************************************************************)
ctor_custom_sets_Mut ==
    (1 :> 16) @@ (2 :> 13) @@ (3 :> 10) @@
    (4 :> 6) @@ (5 :> 6) @@ (6 :> 5) @@
    (7 :> 6) @@ (8 :> 5) @@ (9 :> 4)

\* custom_sets of __init__'s compute_sets.
ctor_custom_sets ==
    (1 :> 16) @@ (2 :> 13) @@ (3 :> 10) @@
    (4 :> 7) @@ (5 :> 6) @@ (6 :> 5) @@
    (7 :> 6) @@ (8 :> 5) @@ (9 :> 4)

\* compute_sets(session_idx, run_min, week) of __init__; in week 4 an index
\* other than 10, 11, 12 falls off the end of the function (None).
ctor_compute_sets(session_idx_, run_min, week) ==
    IF run_min = 0 THEN 1
    ELSE IF session_idx_ \in DOMAIN ctor_custom_sets THEN ctor_custom_sets[session_idx_]
    ELSE IF week = 4 THEN
        (IF session_idx_ = 10 THEN 6
         ELSE IF session_idx_ = 11 THEN 1
         ELSE IF session_idx_ = 12 THEN 5
         ELSE None)
    ELSE IF week = 5 THEN Max(6, PyIntOfHalves(16 - (session_idx_ - 13)))
    ELSE IF week = 6 THEN Max(5, PyIntOfHalves(14 - (session_idx_ - 16)))
    ELSE Max(3, PyIntOfHalves(10 - (session_idx_ - 19)))

\* The text appended for the running session session_counter on day `day`,
\* held as its parts.
RunEntry(table, day, session_counter, week) ==
    LET run_min == table[session_counter][1]
        walk_min == table[session_counter][2]
    IN  [day |-> day,
         kind |-> IF run_min = 0 /\ walk_min = 0 THEN "Continuous run (default)"
                  ELSE IF walk_min = 0 THEN "Continuous run"
                  ELSE "Run/walk intervals",
         session |-> session_counter,
         run_min |-> run_min,
         walk_min |-> walk_min,
         sets |-> ctor_compute_sets(session_counter, run_min, week)]

\* The fixed entries.
FixedEntry(day, kind) ==
    [day |-> day, kind |-> kind, session |-> 0, run_min |-> 0, walk_min |-> 0,
     sets |-> 0]

\* session_counter on entry to the body for `week`, and after k of its
\* guarded running-session blocks: it stops at max_sessions + 1.
CounterAt(table, week, k) ==
    IF 3 * (week - 1) + 1 + k <= Len(table) + 1
    THEN 3 * (week - 1) + 1 + k
    ELSE Len(table) + 1

RunEntries(table, day, week, k) ==
    IF CounterAt(table, week, k) <= Len(table)
    THEN <<RunEntry(table, day, CounterAt(table, week, k), week)>>
    ELSE <<>>

RaceDayMut(week) ==
    IF week >= 7 - 1 THEN <<FixedEntry("Sun", "RACE DAY")>> ELSE <<>>

\* if week == 7: week_list.append("Sun: RACE DAY ...")
RaceDay(week) ==
    IF week = 7 THEN <<FixedEntry("Sun", "RACE DAY")>> ELSE <<>>

\* week_list of one iteration of `for week in range(1, 8)`.
WeekList(table, week) ==
    RunEntries(table, "Mon", week, 0)
    \o RunEntries(table, "Tue", week, 1)
    \o <<FixedEntry("Wed", "Rest or strength training")>>
    \o RunEntries(table, "Thu", week, 2)
    \o <<FixedEntry("Fri", "Rest or yoga/mobility work"),
         FixedEntry("Weekend", "Rest")>>
    \o RaceDay(week)

\* self.base_plan after the loop; the loop breaks at the first week whose
\* session_counter is beyond the table.
BasePlan(table) ==
    [week \in {w \in 1..7 : CounterAt(table, w, 0) <= Len(table)} |->
        WeekList(table, week)]

(***************************************************************************)
(* The log store of TrainingPlan: the JSON log file and the methods that   *)
(* read and write it.                                                      *)
(*                                                                         *)
(* A dict key is a string of decimal digits, held as the sequence of its   *)
(* digits ("10" is <<1, 0>>).  A weekly record holds pace and distance in  *)
(* tenths, recovery as an integer, and None for an absent value.           *)
(***************************************************************************)
RECURSIVE PyStr(_)
\* str(week) for a week >= 0.
PyStr(n) == IF n < 10 THEN <<n>> ELSE PyStr(n \div 10) \o <<n % 10>>

RECURSIVE PyInt(_)
\* int(week_str) for a string of digits.
PyInt(str) ==
    IF Len(str) = 1 THEN str[1]
    ELSE PyInt(SubSeq(str, 1, Len(str) - 1)) * 10 + str[Len(str)]

\* JSON's null in the file.
JsonNull == -2

EmptyDict == <<>>

\* Python values: a tag and, for a dict, its items.
PyDict(d) == [t |-> "dict", d |-> d]
PyList == [t |-> "list", d |-> EmptyDict]
PyNone == [t |-> "NoneType", d |-> EmptyDict]

Returns(v) == [exc |-> "", val |-> v]
Raises(e) == [exc |-> e, val |-> PyNone]

\* The log file: absent, or present with a content of one of the kinds
\*   "object"  a JSON object of weekly records (what save_logs writes),
\*   "empty"   zero bytes,
\*   "invalid" text that is not JSON ("invalid json content"),
\*   "array"   a JSON document that is a non-empty array ("[1, 2]"),
\*   "null"    the JSON document "null".
NoFile == [exists |-> FALSE, kind |-> "none", members |-> EmptyDict]
EmptyFile == [exists |-> TRUE, kind |-> "empty", members |-> EmptyDict]

JsonValue(v) == IF v = None THEN JsonNull ELSE v
PyValue(j) == IF j = JsonNull THEN None ELSE j

\* json.dump of one weekly record, and json.load of it.
JsonRecord(r) ==
    [pace |-> JsonValue(r.pace), distance |-> JsonValue(r.distance),
     recovery |-> JsonValue(r.recovery), skipped |-> r.skipped,
     comments |-> r.comments, logged_at |-> r.logged_at]

PyRecord(j) ==
    [pace |-> PyValue(j.pace), distance |-> PyValue(j.distance),
     recovery |-> PyValue(j.recovery), skipped |-> j.skipped,
     comments |-> j.comments, logged_at |-> j.logged_at]

\* json.dump(logs, f) into a file opened with 'w'.
JsonDump(logs) ==
    [exists |-> TRUE, kind |-> "object",
     members |-> [k \in DOMAIN logs |-> JsonRecord(logs[k])]]

\* load_logs(): {} when the file is absent or json.load raises
\* JSONDecodeError, otherwise whatever json.load returns.
load_logs(f) ==
    IF ~f.exists THEN Returns(PyDict(EmptyDict))
    ELSE IF f.kind \in {"empty", "invalid"} THEN Returns(PyDict(EmptyDict))
    ELSE IF f.kind = "array" THEN Returns(PyList)
    ELSE IF f.kind = "null" THEN Returns(PyNone)
    ELSE Returns(PyDict([k \in DOMAIN f.members |-> PyRecord(f.members[k])]))

\* bool(logs): an empty dict and None are false, the array [1, 2] is true.
Truthy(v) ==
    IF v.t = "dict" THEN DOMAIN v.d # {}
    ELSE IF v.t = "list" THEN TRUE
    ELSE FALSE

SetMax(S) == CHOOSE x \in S : \A y \in S : y <= x

CurrentWeekOfMut(logs) == Cardinality(DOMAIN logs)

\* max(int(week) for week in logs.keys())
CurrentWeekOf(logs) == SetMax({PyInt(k) : k \in DOMAIN logs})

\* get_current_week()
get_current_week(f) ==
    LET logs == load_logs(f).val IN
    IF ~Truthy(logs) THEN Returns(0)
    ELSE IF logs.t # "dict" THEN Raises("AttributeError")
    ELSE Returns(CurrentWeekOf(logs.d))

DictSetMut(logs, key, value) ==
    [k \in DOMAIN logs \cup {key} |->
        IF k # key THEN logs[k]
        ELSE IF key \in DOMAIN logs
             THEN [pace |-> IF value.pace = None THEN logs[k].pace ELSE value.pace,
                   distance |-> IF value.distance = None THEN logs[k].distance
                                ELSE value.distance,
                   recovery |-> IF value.recovery = None THEN logs[k].recovery
                                ELSE value.recovery,
                   skipped |-> value.skipped,
                   comments |-> value.comments,
                   logged_at |-> value.logged_at]
             ELSE value]

\* logs[key] = value
DictSet(logs, key, value) ==
    [k \in DOMAIN logs \cup {key} |-> IF k = key THEN value ELSE logs[k]]

\* The dict log_week stores under str(week).
WeekRecord(args, timestamp) ==
    [pace |-> args.pace, distance |-> args.distance, recovery |-> args.recovery,
     skipped |-> args.skipped, comments |-> args.comments,
     logged_at |-> timestamp]

\* The file after log_week(week, **args) at time `timestamp`, and its outcome.
log_week(f, week, args, timestamp) ==
    LET logs == load_logs(f).val IN
    IF logs.t # "dict" THEN [file |-> f, ret |-> Raises("TypeError")]
    ELSE [file |-> JsonDump(DictSet(logs.d, PyStr(week), WeekRecord(args, timestamp))),
          ret |-> Returns(PyNone)]

\* reset_plan(): os.remove when the file exists.
reset_plan(f) == IF f.exists THEN NoFile ELSE f

\* json.dump(value, f) into a file opened with 'w', for whatever load_logs
\* returned.
JsonDumpValue(v) ==
    IF v.t = "dict" THEN JsonDump(v.d)
    ELSE IF v.t = "list" THEN [exists |-> TRUE, kind |-> "array", members |-> EmptyDict]
    ELSE [exists |-> TRUE, kind |-> "null", members |-> EmptyDict]

save_logs_Mut(f, logs) ==
    IF logs.t = "dict" /\ DOMAIN logs.d # {}
    THEN JsonDump([k \in {j \in DOMAIN logs.d : PyInt(j) # CurrentWeekOf(logs.d)} |->
                       logs.d[k]])
    ELSE JsonDumpValue(logs)

\* save_logs(logs) when open and json.dump succeed: the file f is
\* overwritten with the whole mapping.
save_logs(f, logs) == JsonDumpValue(logs)

\* What a save_logs call leaves of the file f when it does not complete:
\*   "open"      open(log_file, 'w') raises IOError, nothing is touched;
\*   "truncated" the file was opened (and so truncated) and nothing of
\*               json.dump's output reached it;
\*   "partial"   a prefix of json.dump's output reached it.
SaveOutcomes == {"open", "truncated", "partial"}

FailedWrite(f, outcome) ==
    IF outcome = "open" THEN f
    ELSE IF outcome = "truncated" THEN EmptyFile
    ELSE [exists |-> TRUE, kind |-> "invalid", members |-> EmptyDict]

\* The texts export_logs returns.
Exported == [t |-> "str", kind |-> "exported"]
ExportError == [t |-> "str", kind |-> "error_exporting"]

export_logs_Mut(f, g) ==
    [file |-> f,
     export_file |-> IF Truthy(load_logs(f).val)
                     THEN JsonDumpValue(load_logs(f).val) ELSE g,
     ret |-> Returns(Exported)]

\* export_logs(filename) with target file g: the files and the result.
export_logs(f, g) ==
    [file |-> f, export_file |-> JsonDumpValue(load_logs(f).val),
     ret |-> Returns(Exported)]

\* export_logs(filename) when open or json.dump raises IOError.
export_logs_IOError(f, g, outcome) ==
    [file |-> f, export_file |-> FailedWrite(g, outcome),
     ret |-> Returns(ExportError)]

\* The advice texts of adjust_plan.
ReduceIntensity == "Reduce intensity (shorter intervals, more easy running)"
AddRest == "Add extra rest day or reduce intensity"
EasierPace == "Consider easier pace or shorter workouts"
RecoveringWell == "You're recovering well! Maintain current intensity"
IncreaseIntensity == "Consider slightly increasing intensity or adding extra workout"
PaceImproved == "Great pace improvement! Keep it up!"
PaceSlower == "Pace seems slower - focus on easy runs this week"

\* if data.get("skipped", False): ...
SkippedAdvice(data) == IF data.skipped THEN <<ReduceIntensity>> ELSE <<>>

RecoveryAdviceMut(recovery) ==
    IF recovery = None THEN <<>>
    ELSE IF recovery <= 4 THEN <<AddRest>>
    ELSE IF recovery <= 6 THEN <<EasierPace>>
    ELSE IF recovery >= 8 THEN <<RecoveringWell>>
    ELSE <<>>

\* The if/elif chain on data.get("recovery").
RecoveryAdvice(recovery) ==
    IF recovery = None THEN <<>>
    ELSE IF recovery < 4 THEN <<AddRest>>
    ELSE IF recovery < 6 THEN <<EasierPace>>
    ELSE IF recovery > 8 THEN <<RecoveringWell>>
    ELSE IF recovery >= 9 THEN <<IncreaseIntensity>>
    ELSE <<>>

PaceAdviceMut(logs, k) ==
    LET data == logs[k]
        week == PyInt(k)
        prev_key == PyStr(week - 1)
        prev_pace == IF week > 1 /\ prev_key \in DOMAIN logs
                     THEN logs[prev_key].pace ELSE None
        has_prev == prev_pace # None /\ prev_pace # 0
    IN  IF week > 1 /\ data.pace # None /\ data.pace # 0
        THEN IF has_prev /\ data.pace < prev_pace THEN <<PaceImproved>>
             ELSE IF has_prev /\ data.pace > prev_pace THEN <<PaceSlower>>
             ELSE <<>>
        ELSE <<>>

\* The pace check against logs.get(str(week - 1), {}).get("pace");
\* pace > prev_pace * 1.1 is pace * 10 > prev_pace * 11.
PaceAdvice(logs, k) ==
    LET data == logs[k]
        week == PyInt(k)
        prev_key == PyStr(week - 1)
        prev_pace == IF week > 1 /\ prev_key \in DOMAIN logs
                     THEN logs[prev_key].pace ELSE None
        has_prev == prev_pace # None /\ prev_pace # 0
    IN  IF week > 1 /\ data.pace # None /\ data.pace # 0
        THEN IF has_prev /\ data.pace < prev_pace THEN <<PaceImproved>>
             ELSE IF has_prev /\ data.pace * 10 > prev_pace * 11 THEN <<PaceSlower>>
             ELSE <<>>
        ELSE <<>>

\* The suggestions adjust_plan collects for the logged week with key k;
\* " | ".join(suggestions) is held as the sequence of its parts.
Suggestions(logs, k) ==
    SkippedAdvice(logs[k]) \o RecoveryAdvice(logs[k].recovery) \o PaceAdvice(logs, k)

adjust_plan_Mut(f) ==
    LET logs == load_logs(f).val IN
    IF logs.t # "dict" THEN Raises("AttributeError")
    ELSE LET advised == {k \in DOMAIN logs.d : Suggestions(logs.d, k) # <<>>}
         IN  Returns(PyDict([next_week \in {PyInt(k) + 1 : k \in advised} |->
                 Suggestions(logs.d,
                             CHOOSE k \in advised : PyInt(k) + 1 = next_week)]))

\* adjust_plan(): next week -> joined suggestions.
adjust_plan(f) ==
    LET logs == load_logs(f).val IN
    IF logs.t # "dict" THEN Raises("AttributeError")
    ELSE LET advised == {k \in DOMAIN logs.d :
                            PyInt(k) + 1 <= 7 /\ Suggestions(logs.d, k) # <<>>}
         IN  Returns(PyDict([next_week \in {PyInt(k) + 1 : k \in advised} |->
                 Suggestions(logs.d,
                             CHOOSE k \in advised : PyInt(k) + 1 = next_week)]))

\* predict_5k(): the text is held as the quantities it is formatted from;
\* weekly_improvement is in thousandths, current_5k_estimate in tenths of a
\* minute.  total_improvement_factor = (1 - weekly_improvement) ** weeks_remaining
\* is held as the sequence of its weeks_remaining factors, in thousandths, and
\* projected_5k_time is current_5k_estimate times their product; the three
\* projection lines are part of the text when weeks_remaining > 0.
Prediction(kind, week, estimate, rate, remaining) ==
    [t |-> "str", kind |-> kind, latest_week |-> week,
     current_5k_estimate |-> estimate, weekly_improvement |-> rate,
     weeks_remaining |-> remaining,
     total_improvement_factor |-> [i \in 1..remaining |-> 1000 - rate],
     projection_lines |-> remaining > 0]

predict_5k(f) ==
    LET logs == load_logs(f).val IN
    IF ~Truthy(logs) THEN Returns(Prediction("not_enough_data", 0, 0, 0, 0))
    ELSE IF logs.t # "dict" THEN Raises("AttributeError")
    ELSE LET weeks_with_pace == {k \in DOMAIN logs.d : logs.d[k].pace # None} IN
         IF weeks_with_pace = {} THEN Returns(Prediction("no_pace_data", 0, 0, 0, 0))
         ELSE LET latest_week == SetMax({PyInt(k) : k \in weeks_with_pace})
                  latest_data ==
                      logs.d[CHOOSE k \in weeks_with_pace : PyInt(k) = latest_week]
                  recovery == latest_data.recovery
              IN  IF recovery = None THEN Raises("TypeError")
                  ELSE Returns(Prediction("prediction", latest_week,
                                          latest_data.pace * 5,
                                          IF recovery >= 8 THEN 30
                                          ELSE IF recovery <= 4 THEN 15
                                          ELSE 25,
                                          Max(0, 7 - latest_week)))

(***************************************************************************)
(* Specification Spec: the operations of the log store on one log file.    *)
(* Specification SpecExternal: the same, with the file also written from   *)
(* outside the program.                                                    *)
(***************************************************************************)
\* Arguments of log_week: its defaults, a full record, a skipped week.
DefaultArgs ==
    [pace |-> None, distance |-> None, recovery |-> None, skipped |-> FALSE,
     comments |-> ""]

LogArgs ==
    {DefaultArgs,
     [pace |-> 65, distance |-> 30, recovery |-> 7, skipped |-> FALSE,
      comments |-> "Good first week"],
     [pace |-> 60, distance |-> None, recovery |-> 3, skipped |-> TRUE,
      comments |-> "tired"]}

\* Week numbers passed to log_week: consecutive weeks, gaps, the last week of
\* the plan and weeks whose key has one and two digits.
WeekInputs == {1, 2, 3, 5, 7, 9, 10}

\* The lines typed at the prompts of log_weekly_performance.
Typed(pace_input, distance_input, recovery_inputs, skipped_input) ==
    [pace |-> pace_input, distance |-> distance_input,
     recovery |-> recovery_inputs, skipped |-> skipped_input]

NoOp == [name |-> "none", week |-> 0, args |-> DefaultArgs, existed |-> FALSE,
         answer |-> <<>>, typed |-> Typed(<<>>, <<>>, <<>>, <<>>)]

Called(name) == [NoOp EXCEPT !.name = name]

\* The values the variables of the other specifications rest at.
NoSession == [run_min |-> 0, walk_min |-> 0, sets |-> 0, total_run_min |-> 0,
              total_walk_min |-> 0]
NoResult == [done |-> FALSE, run_distance_m |-> 0, walk_distance_m |-> 0,
             total_distance_m |-> 0, factor |-> 0]

\* st.session_state before the dashboard has run: no plan table, and the
\* defaults the pace functions fall back on (7'30'' and 11'00'' per km, fixed
\* pace mode on).
NoDashboard ==
    [training_df |-> <<>>, plan_modified |-> FALSE,
     running_pace_min |-> 7, running_pace_sec |-> 30,
     walking_pace_min |-> 11, walking_pace_sec |-> 0,
     fixed_pace_mode |-> TRUE]

Handled(kind) == [kind |-> kind]

\* A log_week call that has not started: its locals.
IdleWriter ==
    [pc |-> "idle", week |-> 0, args |-> DefaultArgs, logs |-> PyDict(EmptyDict)]

Writers == {"A", "B"}

WritersIdle ==
    /\ writer = [w \in Writers |-> IdleWriter]
    /\ schedule = <<>>

DistIdle ==
    /\ dsession = NoSession
    /\ dspeed = <<0, 0>>
    /\ fatigue = NoResult
    /\ simple = NoResult
    /\ session_state = NoDashboard
    /\ result = Handled("none")

LogIdle ==
    /\ file = NoFile
    /\ now = 0
    /\ op = NoOp
    /\ ret = Returns(PyNone)
    /\ logged = {}
    /\ export_file = NoFile

SessionsIdle ==
    /\ pc = "idle"
    /\ interval_progress = HandTable
    /\ session_count = 0
    /\ session_idx = 0
    /\ workout_sessions = <<>>
    /\ base_plan = BasePlan(HandTable)

Entries(f) == IF load_logs(f).val.t = "dict" THEN DOMAIN load_logs(f).val.d ELSE {}

LogWeek(week, args) ==
    LET r == log_week(file, week, args, now) IN
    /\ PyStr(week) \in Entries(file) \/ Cardinality(Entries(file)) < MaxEntries
    /\ file' = r.file
    /\ ret' = r.ret
    /\ op' = [name |-> "log_week", week |-> week, args |-> args,
              existed |-> PyStr(week) \in Entries(file), answer |-> <<>>,
              typed |-> NoOp.typed]
    /\ logged' = IF r.ret.exc = "" THEN
                     (IF file.exists /\ file.kind = "object" THEN logged ELSE {})
                     \cup {week}
                 ELSE logged
    /\ UNCHANGED <<now, export_file, svars, dvars, cvars>>

ResetPlan ==
    /\ file' = reset_plan(file)
    /\ ret' = Returns(PyNone)
    /\ op' = Called("reset_plan")
    /\ logged' = {}
    /\ UNCHANGED <<now, export_file, svars, dvars, cvars>>

LoadLogs ==
    /\ ret' = load_logs(file)
    /\ op' = Called("load_logs")
    /\ UNCHANGED <<file, now, logged, export_file, svars, dvars, cvars>>

GetCurrentWeek ==
    /\ ret' = get_current_week(file)
    /\ op' = Called("get_current_week")
    /\ UNCHANGED <<file, now, logged, export_file, svars, dvars, cvars>>

AdjustPlan ==
    /\ ret' = adjust_plan(file)
    /\ op' = Called("adjust_plan")
    /\ UNCHANGED <<file, now, logged, export_file, svars, dvars, cvars>>

Predict5k ==
    /\ ret' = predict_5k(file)
    /\ op' = Called("predict_5k")
    /\ UNCHANGED <<file, now, logged, export_file, svars, dvars, cvars>>

\* A second of wall-clock time passes.
Tick ==
    /\ now < MaxClock
    /\ now' = now + 1
    /\ UNCHANGED <<file, op, ret, logged, export_file, svars, dvars, cvars>>

\* The file is written by something other than save_logs.
ExternalKinds == {"empty", "invalid", "array", "null"}

ExternalWrite(kind) ==
    /\ file' = [exists |-> TRUE, kind |-> kind, members |-> EmptyDict]
    /\ ret' = Returns(PyNone)
    /\ op' = Called("external_write")
    /\ logged' = {}
    /\ UNCHANGED <<now, export_file, svars, dvars, cvars>>

Init ==
    /\ WritersIdle
    /\ SessionsIdle
    /\ DistIdle
    /\ file \in {NoFile, EmptyFile}
    /\ now = 0
    /\ op = NoOp
    /\ ret = Returns(PyNone)
    /\ logged = {}
    /\ export_file = NoFile

Next ==
    \/ \E week \in WeekInputs, args \in LogArgs : LogWeek(week, args)
    \/ ResetPlan
    \/ LoadLogs
    \/ GetCurrentWeek
    \/ AdjustPlan
    \/ Predict5k
    \/ Tick

Spec == Init /\ [][Next]_vars

NextExternal ==
    \/ Next
    \/ \E kind \in ExternalKinds : ExternalWrite(kind)

SpecExternal == Init /\ [][NextExternal]_vars

(***************************************************************************)
(* Specification SpecAdvice: weeks are logged with the recovery values,    *)
(* paces and skip flags that adjust_plan and predict_5k distinguish, then  *)
(* the advice and the prediction are asked for.                            *)
(***************************************************************************)
\* Weeks 1, 2 and 6, 7: with and without a logged previous week, and with a
\* next week inside and outside the 7-week plan.
AdviceWeeks == {1, 2, 6, 7}

Args(pace, distance, recovery, skipped) ==
    [pace |-> pace, distance |-> distance, recovery |-> recovery,
     skipped |-> skipped, comments |-> ""]

AdviceArgs ==
    {DefaultArgs,
     Args(60, None, None, FALSE),     \* log_week(w, pace=6.0)
     Args(65, 30, 7, FALSE),          \* a full record
     Args(None, 30, 6, TRUE),         \* skipped, recovery 6, no pace
     Args(None, None, 3, FALSE),      \* low recovery
     Args(66, None, 4, TRUE),         \* skipped, recovery 4, pace 6.6
     Args(60, 30, 5, TRUE),           \* skipped, recovery 5
     Args(55, None, 8, FALSE),        \* recovery 8
     Args(70, 30, 9, FALSE),          \* recovery 9
     Args(None, None, 10, FALSE)}     \* recovery 10, no pace

NextAdvice ==
    \/ \E week \in AdviceWeeks, args \in AdviceArgs : LogWeek(week, args)
    \/ ResetPlan
    \/ AdjustPlan
    \/ Predict5k

SpecAdvice == Init /\ [][NextAdvice]_vars

(***************************************************************************)
(* Specification SpecCli: the reset command of the command-line menu.  A   *)
(* line read by input() is the sequence of its characters.                 *)
(***************************************************************************)
Whitespace == {" ", "\t"}

\* str.strip(): without its leading and trailing whitespace.
Strip(s) ==
    LET kept == {i \in 1..Len(s) : s[i] \notin Whitespace} IN
    IF kept = {} THEN <<>>
    ELSE SubSeq(s, CHOOSE i \in kept : \A j \in kept : i <= j, SetMax(kept))

LowerChar(c) ==
    CASE c = "Y" -> "y"
      [] c = "E" -> "e"
      [] c = "S" -> "s"
      [] c = "N" -> "n"
      [] c = "O" -> "o"
      [] OTHER -> c

LowerMut(s) == s

\* str.lower()
Lower(s) == [i \in 1..Len(s) |-> LowerChar(s[i])]

\* What the user types at the confirmation prompt.
Answers ==
    {<<"y">>, <<"y", "e", "s">>, <<"Y">>, <<"Y", "E", "S">>, <<" ", "y", " ">>,
     <<"Y", "e", "s", " ">>, <<"n">>, <<"N", "o">>, <<>>, <<" ">>, <<"y", "e">>,
     <<"y", " ", "e", "s">>, <<"y", "e", "s", "s">>}

CliWeeks == {1, 2}

\* FiveKTrainingApp.reset_plan(): op.existed records whether weeks were
\* logged when the command was given.
CliResetPlan(answer) ==
    LET confirm == Lower(Strip(answer)) IN
    /\ IF confirm \in {<<"y">>, <<"y", "e", "s">>}
       THEN file' = reset_plan(file) /\ logged' = {}
       ELSE UNCHANGED <<file, logged>>
    /\ ret' = Returns(PyNone)
    /\ op' = [name |-> "cli_reset_plan", week |-> 0, args |-> DefaultArgs,
              existed |-> Entries(file) # {}, answer |-> answer,
              typed |-> NoOp.typed]
    /\ UNCHANGED <<now, export_file, svars, dvars, cvars>>

NextCli ==
    \/ \E week \in CliWeeks, args \in LogArgs : LogWeek(week, args)
    \/ \E answer \in Answers : CliResetPlan(answer)
    \/ ResetPlan

SpecCli == Init /\ [][NextCli]_vars

(***************************************************************************)
(* Specification SpecMenu: the interactive menu of main.py, started on an  *)
(* empty log: log weekly performance, reset plan and the read-only         *)
(* commands.  Numbers are parsed from the typed characters.                *)
(***************************************************************************)
Digits == {"0", "1", "2", "3", "4", "5", "6", "7", "8", "9"}

DigitVal(c) ==
    CASE c = "0" -> 0 [] c = "1" -> 1 [] c = "2" -> 2 [] c = "3" -> 3
      [] c = "4" -> 4 [] c = "5" -> 5 [] c = "6" -> 6 [] c = "7" -> 7
      [] c = "8" -> 8 [] c = "9" -> 9

RECURSIVE DigitsVal(_)
\* The number written by a sequence of digits (0 for none).
DigitsVal(ds) ==
    IF ds = <<>> THEN 0
    ELSE DigitsVal(SubSeq(ds, 1, Len(ds) - 1)) * 10 + DigitVal(ds[Len(ds)])

AllDigits(ds) == \A i \in 1..Len(ds) : ds[i] \in Digits

\* A parsed number, or ValueError.
Parsed(v) == [ok |-> TRUE, val |-> v]
ValueError == [ok |-> FALSE, val |-> 0]

\* The text without a leading sign, and the sign.
Unsigned(s) == IF s # <<>> /\ s[1] \in {"+", "-"} THEN SubSeq(s, 2, Len(s)) ELSE s
Sign(s) == IF s # <<>> /\ s[1] = "-" THEN -1 ELSE 1

\* int(text) for a line of text: an optional sign and decimal digits.
PyIntParse(s) ==
    LET u == Unsigned(Strip(s)) IN
    IF u # <<>> /\ AllDigits(u) THEN Parsed(Sign(Strip(s)) * DigitsVal(u))
    ELSE ValueError

PyFloatParseMut(s) ==
    LET u == Unsigned(Strip(s))
        keep == SelectSeq(u, LAMBDA c : c \in Digits)
    IN  IF keep # <<>> THEN Parsed(Sign(Strip(s)) * DigitsVal(keep)) ELSE ValueError

\* float(text) for a line of decimal text with at most one fractional digit
\* written, in tenths: an optional sign, digits, and at most one point.
PyFloatParse(s) ==
    LET u == Unsigned(Strip(s))
        points == {i \in 1..Len(u) : u[i] = "."}
        point == IF points = {} THEN Len(u) + 1 ELSE CHOOSE i \in points : TRUE
        whole == SubSeq(u, 1, point - 1)
        frac == SubSeq(u, point + 1, Len(u))
    IN  IF /\ Cardinality(points) <= 1
           /\ AllDigits(whole) /\ AllDigits(frac)
           /\ Len(whole) + Len(frac) >= 1
           /\ Len(frac) <= 1
        THEN Parsed(Sign(Strip(s)) * (DigitsVal(whole) * 10 + DigitsVal(frac)))
        ELSE ValueError

\* float(x) if x else None, for the stripped line x.
OptionalFloat(s) == IF Strip(s) = <<>> THEN Parsed(None) ELSE PyFloatParse(s)

\* A line answers the recovery prompt when it is an integer in 1..10.
RecoveryAccepted(line) ==
    PyIntParse(line).ok /\ 1 <= PyIntParse(line).val /\ PyIntParse(line).val <= 10

\* The while True loop of the recovery prompt over the lines typed: the
\* value of the first accepted line.
RecoveryOf(lines) ==
    PyIntParse(lines[CHOOSE i \in 1..Len(lines) :
                         /\ RecoveryAccepted(lines[i])
                         /\ \A j \in 1..(i - 1) : ~RecoveryAccepted(lines[j])]).val

\* What the user types at the prompts: pace, distance, the lines given to
\* the recovery prompt up to the first accepted one, and the skipped answer.
TypedInputs ==
    {Typed(<<" ">>, <<>>, <<<<"-", "3">>, <<" ", "1", "0">>>>, <<"n">>),
     Typed(<<" ", "6", ".", "5">>, <<"3", ".", "0">>,
           <<<<"1", "1">>, <<"x">>, <<>>, <<"0">>, <<"7", ".", "5">>, <<"3">>>>,
           <<"Y">>),
     Typed(<<"a", "b", "c">>, <<>>, <<<<"7">>>>, <<"n">>),
     Typed(<<"6", ",", "5">>, <<"3">>, <<<<"7">>>>, <<"n">>),
     Typed(<<"6", ".", "5", ".", "1">>, <<>>, <<<<"7">>>>, <<"n">>),
     Typed(<<"6", ".", "5">>, <<"5", "k">>, <<<<"7">>>>, <<"n">>),
     Typed(<<>>, <<".">>, <<<<"7">>>>, <<"n">>)}

log_weekly_performance_Mut(f, typed, timestamp) ==
    LET current_week == get_current_week(f)
        pace == OptionalFloat(typed.pace)
        distance == OptionalFloat(typed.distance)
    IN  IF current_week.exc # ""
        THEN [file |-> f, name |-> "cli_log_error", week |-> 0, args |-> DefaultArgs]
        ELSE IF current_week.val > 7
        THEN [file |-> f, name |-> "cli_log_completed", week |-> 0, args |-> DefaultArgs]
        ELSE IF ~pace.ok \/ ~distance.ok
        THEN [file |-> f, name |-> "cli_log_value_error", week |-> 0,
              args |-> DefaultArgs]
        ELSE LET args == [pace |-> pace.val, distance |-> distance.val,
                          recovery |-> RecoveryOf(typed.recovery),
                          skipped |-> Lower(Strip(typed.skipped))
                                          \in {<<"y">>, <<"y", "e", "s">>},
                          comments |-> ""]
             IN  [file |-> log_week(f, current_week.val + 1, args, timestamp).file,
                  name |-> "cli_log_week", week |-> current_week.val + 1,
                  args |-> args]

\* FiveKTrainingApp.log_weekly_performance() with the lines `typed`.
log_weekly_performance(f, typed, timestamp) ==
    LET current_week == get_current_week(f)
        pace == OptionalFloat(typed.pace)
        distance == OptionalFloat(typed.distance)
    IN  IF current_week.exc # ""
        THEN [file |-> f, name |-> "cli_log_error", week |-> 0, args |-> DefaultArgs]
        ELSE IF current_week.val >= 7
        THEN [file |-> f, name |-> "cli_log_completed", week |-> 0, args |-> DefaultArgs]
        ELSE IF ~pace.ok \/ ~distance.ok
        THEN [file |-> f, name |-> "cli_log_value_error", week |-> 0,
              args |-> DefaultArgs]
        ELSE LET args == [pace |-> pace.val, distance |-> distance.val,
                          recovery |-> RecoveryOf(typed.recovery),
                          skipped |-> Lower(Strip(typed.skipped))
                                          \in {<<"y">>, <<"y", "e", "s">>},
                          comments |-> ""]
             IN  [file |-> log_week(f, current_week.val + 1, args, timestamp).file,
                  name |-> "cli_log_week", week |-> current_week.val + 1,
                  args |-> args]

\* Menu choice 2.
CliLogWeek(typed) ==
    LET r == log_weekly_performance(file, typed, now) IN
    /\ file' = r.file
    /\ ret' = Returns(PyNone)
    /\ op' = [name |-> r.name, week |-> r.week, args |-> r.args,
              existed |-> PyStr(r.week) \in Entries(file), answer |-> <<>>,
              typed |-> typed]
    /\ logged' = IF r.name = "cli_log_week" THEN logged \cup {r.week} ELSE logged
    /\ UNCHANGED <<now, export_file, svars, dvars, cvars>>

\* The menu choices that only read: 1 plan, 3 adjustments, 4 prediction,
\* 5 graphs, 6 history, 8 help, and a choice outside 1-9.
ShowChoices == {"1", "3", "4", "5", "6", "8", "x"}

CliShow(choice) ==
    /\ ret' = CASE choice = "1" -> get_current_week(file)
                [] choice = "3" -> adjust_plan(file)
                [] choice = "4" -> predict_5k(file)
                [] choice \in {"5", "6"} -> load_logs(file)
                [] OTHER -> Returns(PyNone)
    /\ op' = [Called("cli_show") EXCEPT !.answer = <<choice>>]
    /\ UNCHANGED <<file, now, logged, export_file, svars, dvars, cvars>>

InitMenu ==
    /\ WritersIdle
    /\ SessionsIdle
    /\ DistIdle
    /\ LogIdle

NextMenu ==
    \/ \E typed \in TypedInputs : CliLogWeek(typed)
    \/ \E answer \in Answers : CliResetPlan(answer)
    \/ \E choice \in ShowChoices : CliShow(choice)

SpecMenu == InitMenu /\ [][NextMenu]_vars

(***************************************************************************)
(* Specification SpecSave: saving and exporting, with writes that fail or  *)
(* are interrupted.                                                        *)
(***************************************************************************)
\* save_logs(load_logs())
SaveLoaded ==
    /\ file' = save_logs(file, load_logs(file).val)
    /\ ret' = Returns(PyNone)
    /\ op' = Called("save_logs")
    /\ UNCHANGED <<now, logged, export_file, svars, dvars, cvars>>

\* A save_logs call that fails (IOError, caught and reported) or is
\* interrupted before json.dump has finished.
SaveFails(outcome) ==
    /\ file' = FailedWrite(file, outcome)
    /\ ret' = Returns(PyNone)
    /\ op' = [Called("save_logs_failed") EXCEPT !.existed = Entries(file) # {}]
    /\ logged' = IF outcome = "open" THEN logged ELSE {}
    /\ UNCHANGED <<now, export_file, svars, dvars, cvars>>

ExportLogs ==
    LET r == export_logs(file, export_file) IN
    /\ file' = r.file
    /\ export_file' = r.export_file
    /\ ret' = r.ret
    /\ op' = Called("export_logs")
    /\ UNCHANGED <<now, logged, svars, dvars, cvars>>

ExportLogsFails(outcome) ==
    LET r == export_logs_IOError(file, export_file, outcome) IN
    /\ file' = r.file
    /\ export_file' = r.export_file
    /\ ret' = r.ret
    /\ op' = Called("export_logs_io_error")
    /\ UNCHANGED <<now, logged, svars, dvars, cvars>>

NextSave ==
    \/ \E week \in CliWeeks, args \in LogArgs : LogWeek(week, args)
    \/ SaveLoaded
    \/ \E outcome \in SaveOutcomes : SaveFails(outcome)
    \/ ExportLogs
    \/ \E outcome \in SaveOutcomes : ExportLogsFails(outcome)
    \/ ResetPlan

SpecSave == Init /\ [][NextSave]_vars

(***************************************************************************)
(* Specification SpecSessions: construction of a TrainingPlan followed by  *)
(* calls of generate_detailed_sessions, one loop iteration per step.       *)
(***************************************************************************)
InitSessions ==
    /\ WritersIdle
    /\ pc = "ctor"
    /\ interval_progress = <<>>
    /\ session_count = 0
    /\ session_idx = 0
    /\ workout_sessions = <<>>
    /\ base_plan = <<>>
    /\ DistIdle
    /\ LogIdle

\* __init__, lines 36-40: the loop that fills interval_progress by formula.
BuildFormulaTable ==
    /\ pc = "ctor"
    /\ interval_progress' = FormulaTable
    /\ pc' = "ctor_table"
    /\ UNCHANGED <<session_count, session_idx, workout_sessions, base_plan, dvars,
                   lvars, cvars>>

\* __init__, lines 46-84: the literal table replaces it and is stored on self.
AssignHandTable ==
    /\ pc = "ctor_table"
    /\ interval_progress' = HandTable
    /\ pc' = "ctor_plan"
    /\ UNCHANGED <<session_count, session_idx, workout_sessions, base_plan, dvars,
                   lvars, cvars>>

\* __init__, lines 136-195: the loop over the weeks builds self.base_plan.
BuildBasePlan ==
    /\ pc = "ctor_plan"
    /\ base_plan' = BasePlan(interval_progress)
    /\ pc' = "idle"
    /\ UNCHANGED <<interval_progress, session_count, session_idx, workout_sessions,
                   dvars, lvars, cvars>>

\* generate_detailed_sessions(count) is entered.
CallGenerate(count) ==
    /\ pc \in {"idle", "done"}
    /\ session_count' = count
    /\ session_idx' = 1
    /\ workout_sessions' = <<>>
    /\ pc' = "loop"
    /\ UNCHANGED <<interval_progress, base_plan, dvars, lvars, cvars>>

\* One iteration of `for session_idx in range(1, session_count + 1)`.
GenerateStep ==
    /\ pc = "loop"
    /\ session_idx <= session_count
    /\ workout_sessions' =
           Append(workout_sessions, SessionRecord(interval_progress, session_idx))
    /\ session_idx' = session_idx + 1
    /\ UNCHANGED <<pc, interval_progress, session_count, base_plan, dvars, lvars, cvars>>

\* return workout_sessions
GenerateReturn ==
    /\ pc = "loop"
    /\ session_idx > session_count
    /\ pc' = "done"
    /\ UNCHANGED <<interval_progress, session_count, session_idx,
                   workout_sessions, base_plan, dvars, lvars, cvars>>

NextSessions ==
    \/ BuildFormulaTable
    \/ AssignHandTable
    \/ BuildBasePlan
    \/ \E count \in 0..MaxCount : CallGenerate(count)
    \/ GenerateStep
    \/ GenerateReturn

SpecSessions == InitSessions /\ [][NextSessions]_vars

(***************************************************************************)
(* src/analyze_training_plan.py: the two distance models.                  *)
(* Speeds in m/min are held in 1/60 m/min (100 m/min = 6000), so that      *)
(* km/h * 1000 / 60 is the integer km/h * 1000.                            *)
(***************************************************************************)
\* One entry of extract_session_data's list, from a detailed session.
ExtractSession(r) ==
    [run_min |-> r.run_minutes,
     walk_min |-> r.walk_minutes,
     sets |-> r.sets,
     total_run_min |-> r.total_run_time,
     total_walk_min |-> IF r.walk_minutes > 0 THEN r.walk_minutes * r.sets ELSE 0]

ReductionFactorMut(interval_run_minutes) ==
    IF interval_run_minutes < 10 THEN 1000
    ELSE IF interval_run_minutes < 25 THEN 900
    ELSE IF interval_run_minutes < 40 THEN 810
    ELSE 729

\* reduction_factor of get_adjusted_speed, in thousandths.
ReductionFactor(interval_run_minutes) ==
    IF interval_run_minutes <= 10 THEN 1000
    ELSE IF interval_run_minutes <= 25 THEN 900
    ELSE IF interval_run_minutes <= 40 THEN 810
    ELSE 729

\* adjusted_speed_m_per_min of get_adjusted_speed, in 1/60 m/min:
\* (base_speed_kmh * reduction_factor * 1000) / 60.
get_adjusted_speed(interval_run_minutes, base_speed_kmh) ==
    base_speed_kmh * ReductionFactor(interval_run_minutes)

\* The distance fields calculate_distances_with_fatigue stores in a session.
DistancesWithFatigue(session, base_run_speed_kmh, walk_speed_m_per_min) ==
    LET adjusted == get_adjusted_speed(session.run_min, base_run_speed_kmh)
        run_d == session.total_run_min * adjusted
        walk_d == session.total_walk_min * walk_speed_m_per_min
    IN  [done |-> TRUE,
         run_distance_m |-> run_d,
         walk_distance_m |-> walk_d,
         total_distance_m |-> run_d + walk_d,
         factor |-> ReductionFactor(session.run_min)]

SimpleRunDistanceMut(total_run_min, run_speed_m_per_min) ==
    total_run_min * 12000

\* session['total_run_min'] * run_speed_m_per_min
SimpleRunDistance(total_run_min, run_speed_m_per_min) ==
    total_run_min * run_speed_m_per_min

\* The distance fields calculate_distances stores in a session.
Distances(session, run_speed_m_per_min, walk_speed_m_per_min) ==
    LET run_d == SimpleRunDistance(session.total_run_min, run_speed_m_per_min)
        walk_d == session.total_walk_min * walk_speed_m_per_min
    IN  [done |-> TRUE,
         run_distance_m |-> run_d,
         walk_distance_m |-> walk_d,
         total_distance_m |-> run_d + walk_d,
         factor |-> 1000]

\* Inputs of the distance models: single-interval run durations around the
\* thresholds of the speed curve, walk durations, set counts and speeds.
RunInputs == {5, 10, 11, 25, 26, 40, 41, 50, 280}
WalkInputs == {0, 15, 30}
BaseSpeedInputs == {8, 12}
WalkSpeedInputs == {5400, 6000}

SessionInputs ==
    {ExtractSession(SessionRecord(HandTable, i)) : i \in 1..21}
    \cup
    {ExtractSession([run_minutes |-> r, walk_minutes |-> w, sets |-> n,
                     total_run_time |-> r * n]) :
         r \in RunInputs, w \in WalkInputs, n \in 1..MaxSets}

InitDist ==
    /\ WritersIdle
    /\ SessionsIdle
    /\ LogIdle
    /\ dsession \in SessionInputs
    /\ dspeed \in BaseSpeedInputs \X WalkSpeedInputs
    /\ fatigue = NoResult
    /\ simple = NoResult
    /\ session_state = NoDashboard
    /\ result = Handled("none")

\* calculate_distances_with_fatigue([dsession], base, walk)
CalcFatigue ==
    /\ ~fatigue.done
    /\ fatigue' = DistancesWithFatigue(dsession, dspeed[1], dspeed[2])
    /\ UNCHANGED <<dsession, dspeed, simple, session_state, result, svars, lvars, cvars>>

\* calculate_distances([dsession], base * 1000 / 60, walk)
CalcSimple ==
    /\ ~simple.done
    /\ simple' = Distances(dsession, dspeed[1] * 1000, dspeed[2])
    /\ UNCHANGED <<dsession, dspeed, fatigue, session_state, result, svars, lvars, cvars>>

NextDist ==
    \/ CalcFatigue
    \/ CalcSimple

SpecDist == InitDist /\ [][NextDist]_vars

(***************************************************************************)
(* src/dashboard_app: the plan table of the dashboard and the pace         *)
(* calculator.  Minutes are in tenths; a speed or distance that the code   *)
(* holds as a float is an exact fraction [num, den] in lowest terms.       *)
(***************************************************************************)
RECURSIVE GCD(_, _)
GCD(a, b) == IF b = 0 THEN a ELSE GCD(b, a % b)

\* The fraction num / den (den > 0, num >= 0).
Rat(num, den) == [num |-> num \div GCD(num, den), den |-> den \div GCD(num, den)]

RatAdd(a, b) == Rat(a.num * b.den + b.num * a.den, a.den * b.den)

day_name_to_number ==
    [day_name \in {"Mon", "Tue", "Wed", "Thu", "Fri", "Sat", "Sun"} |->
        CASE day_name = "Mon" -> 1 [] day_name = "Tue" -> 2 [] day_name = "Wed" -> 3
          [] day_name = "Thu" -> 4 [] day_name = "Fri" -> 5 [] day_name = "Sat" -> 6
          [] day_name = "Sun" -> 7]

\* One row of get_session_data's DataFrame, from a detailed session.
DashRow(session) ==
    [Session |-> session.session,
     Week |-> session.week,
     Day |-> day_name_to_number[session.day_name],
     Run_min |-> session.run_minutes,
     Walk_min |-> session.walk_minutes,
     Sets |-> session.sets,
     Total_Run_min |-> session.total_run_time,
     Total_Workout_min |-> session.total_workout_time,
     Workout_Type |-> session.workout_type]

\* get_session_data(): the rows of generate_detailed_sessions(21).
get_session_data == [i \in 1..21 |-> DashRow(SessionRecord(HandTable, i))]

\* The 'Recalculate totals' branches, applied to one row.
RecalculateTotals(row) ==
    IF row.Walk_min = 0
    THEN [row EXCEPT !.Total_Run_min = row.Run_min,
                     !.Total_Workout_min = row.Run_min,
                     !.Workout_Type = "Continuous"]
    ELSE [row EXCEPT !.Total_Run_min = row.Run_min * row.Sets,
                     !.Total_Workout_min =
                         row.Run_min * row.Sets + row.Walk_min * row.Sets,
                     !.Workout_Type = "Intervals"]

add_new_session_Mut(df) ==
    IF Len(df) = 0
    THEN <<[Session |-> 1, Week |-> 1, Day |-> 1, Run_min |-> 10, Walk_min |-> 20,
            Sets |-> 10, Total_Run_min |-> 100, Total_Workout_min |-> 300,
            Workout_Type |-> "Intervals"]>>
    ELSE LET new_session_num == df[Len(df)].Session + 1
             new_week == (new_session_num \div 3) + 1
             session_in_week == ((new_session_num - 1) % 3) + 1
         IN  Append(df, RecalculateTotals(
                 [Session |-> new_session_num, Week |-> new_week,
                  Day |-> day_mapping[session_in_week],
                  Run_min |-> 50, Walk_min |-> 15, Sets |-> 6,
                  Total_Run_min |-> 300, Total_Workout_min |-> 390,
                  Workout_Type |-> "Intervals"]))

\* add_new_session(df)
add_new_session(df) ==
    IF Len(df) = 0
    THEN <<[Session |-> 1, Week |-> 1, Day |-> 1, Run_min |-> 10, Walk_min |-> 20,
            Sets |-> 10, Total_Run_min |-> 100, Total_Workout_min |-> 300,
            Workout_Type |-> "Intervals"]>>
    ELSE LET new_session_num == df[Len(df)].Session + 1
             new_week == ((new_session_num - 1) \div 3) + 1
             session_in_week == ((new_session_num - 1) % 3) + 1
         IN  Append(df, RecalculateTotals(
                 [Session |-> new_session_num, Week |-> new_week,
                  Day |-> day_mapping[session_in_week],
                  Run_min |-> 50, Walk_min |-> 15, Sets |-> 6,
                  Total_Run_min |-> 300, Total_Workout_min |-> 390,
                  Workout_Type |-> "Intervals"]))

get_running_speed_kmh_Mut(state) ==
    LET pace_total_sec == 60 * state.running_pace_min + state.running_pace_sec IN
    IF pace_total_sec # 0 THEN Returns(Rat(3600, pace_total_sec))
    ELSE Raises("ZeroDivisionError")

\* get_running_speed_kmh(): 60 / (pace_min + pace_sec / 60), else 8.0.
get_running_speed_kmh(state) ==
    LET pace_total_sec == 60 * state.running_pace_min + state.running_pace_sec IN
    IF pace_total_sec > 0 THEN Returns(Rat(3600, pace_total_sec))
    ELSE Returns(Rat(8, 1))

\* get_walking_speed_m_per_min(): (60 / pace) * 1000 / 60 m/min, else 90.
get_walking_speed_m_per_min(state) ==
    LET pace_total_sec == 60 * state.walking_pace_min + state.walking_pace_sec IN
    IF pace_total_sec > 0 THEN Returns(Rat(60000, pace_total_sec))
    ELSE Returns(Rat(90, 1))

DashboardFactorMut(is_fixed_pace, run_min) ==
    IF is_fixed_pace THEN 1000
    ELSE IF run_min <= 10 THEN 1000
    ELSE IF run_min < 25 THEN 900
    ELSE IF run_min <= 50 THEN 800
    ELSE IF run_min <= 100 THEN 750
    ELSE 700

\* The factor of calculate_distances' speed adjustment, in thousandths.
DashboardFactor(is_fixed_pace, run_min) ==
    IF is_fixed_pace THEN 1000
    ELSE IF run_min <= 10 THEN 1000
    ELSE IF run_min <= 25 THEN 900
    ELSE IF run_min <= 50 THEN 800
    ELSE IF run_min <= 100 THEN 750
    ELSE 700

\* One iteration of calculate_distances' loop: the speed used and the
\* distances in km; walk_speed_m_per_min = 100.
RowDistances(row, base_speed_kmh, is_fixed_pace) ==
    LET factor == DashboardFactor(is_fixed_pace, row.Run_min)
        speed_kmh == Rat(base_speed_kmh.num * factor, base_speed_kmh.den * 1000)
        reps == IF row.Walk_min = 0 THEN 1 ELSE row.Sets
        run_distance == Rat(reps * row.Run_min * speed_kmh.num, 600 * speed_kmh.den)
        walking_distance == IF row.Walk_min = 0 THEN Rat(0, 1)
                            ELSE Rat(row.Sets * row.Walk_min, 100)
    IN  [Run_min |-> row.Run_min,
         factor |-> factor,
         speed_kmh |-> speed_kmh,
         Running_Distance_km |-> run_distance,
         Total_Distance_km |-> RatAdd(run_distance, walking_distance)]

\* calculate_distances(df): the two distance columns (and the speed used).
calculate_distances(state) ==
    [i \in 1..Len(state.training_df) |->
        RowDistances(state.training_df[i], get_running_speed_kmh(state).val,
                     state.fixed_pace_mode)]

(***************************************************************************)
(* Specification SpecDash: the dashboard started on the default plan; rows *)
(* are added, removed and edited, the pace settings changed and the        *)
(* distance columns computed.                                              *)
(***************************************************************************)
\* Rows edited: one of the default plan and the first added one.
EditRowsIdx == {1, 22}

\* Run, Walk, Sets values typed into a row (Run 0..60, Walk 0..10 in steps
\* of 0.5, Sets 1..20).
EditValues ==
    {<<0, 0, 1>>, <<25, 0, 20>>, <<25, 15, 1>>, <<600, 100, 20>>}

\* Running paces set in the pace calculator (minutes 3..15, seconds 0..59).
PaceSettings == {<<7, 30>>, <<6, 0>>}

InitDash ==
    /\ WritersIdle
    /\ SessionsIdle
    /\ LogIdle
    /\ dsession = NoSession
    /\ dspeed = <<0, 0>>
    /\ fatigue = NoResult
    /\ simple = NoResult
    /\ session_state = [NoDashboard EXCEPT !.training_df = get_session_data]
    /\ result = Handled("none")

\* The "Add Session" button.
AddSession ==
    /\ Len(session_state.training_df) < MaxRows
    /\ session_state' =
           [session_state EXCEPT !.training_df = add_new_session(@),
                                 !.plan_modified = TRUE]
    /\ result' = Handled("add_session")
    /\ UNCHANGED <<dsession, dspeed, fatigue, simple, svars, lvars, cvars>>

\* The "Remove Last" button.
RemoveLast ==
    /\ IF Len(session_state.training_df) > 1
       THEN session_state' =
                [session_state EXCEPT
                    !.training_df = SubSeq(@, 1, Len(@) - 1),
                    !.plan_modified = TRUE]
       ELSE UNCHANGED session_state
    /\ result' = Handled(IF Len(session_state.training_df) > 1
                         THEN "remove_last" ELSE "remove_last_warning")
    /\ UNCHANGED <<dsession, dspeed, fatigue, simple, svars, lvars, cvars>>

\* The data editor returns the table with row i's Run, Walk, Sets changed.
EditRow(i, values) ==
    /\ i <= Len(session_state.training_df)
    /\ values # <<session_state.training_df[i].Run_min,
                  session_state.training_df[i].Walk_min,
                  session_state.training_df[i].Sets>>
    /\ session_state' =
           [session_state EXCEPT
               !.training_df =
                   [j \in 1..Len(@) |->
                       RecalculateTotals(
                           IF j = i
                           THEN [@[j] EXCEPT !.Run_min = values[1],
                                             !.Walk_min = values[2],
                                             !.Sets = values[3]]
                           ELSE @[j])],
               !.plan_modified = TRUE]
    /\ result' = [kind |-> "edit", row |-> i]
    /\ UNCHANGED <<dsession, dspeed, fatigue, simple, svars, lvars, cvars>>

\* PaceCalculator.render(): the toggle and the running pace inputs.
SetPace(fixed_mode, pace) ==
    /\ session_state' = [session_state EXCEPT !.fixed_pace_mode = fixed_mode,
                                              !.running_pace_min = pace[1],
                                              !.running_pace_sec = pace[2]]
    /\ result' = Handled("pace_settings")
    /\ UNCHANGED <<dsession, dspeed, fatigue, simple, svars, lvars, cvars>>

\* calculate_distances(st.session_state.training_df.copy())
ShowDistances ==
    /\ result' = [kind |-> "distances", rows |-> calculate_distances(session_state)]
    /\ UNCHANGED <<session_state, dsession, dspeed, fatigue, simple, svars, lvars, cvars>>

NextDash ==
    \/ AddSession
    \/ RemoveLast
    \/ \E i \in EditRowsIdx, values \in EditValues : EditRow(i, values)
    \/ \E fixed_mode \in BOOLEAN, pace \in PaceSettings : SetPace(fixed_mode, pace)
    \/ ShowDistances

SpecDash == InitDash /\ [][NextDash]_vars

(***************************************************************************)
(* src/extract_watch_data.py: the distance parse_metrics derives from the  *)
(* duration and the average pace it finds in the OCR text.  A match is the *)
(* tuple of the numbers matched, <<>> when the pattern is not found; the   *)
(* distance is in tenths of a km, None while metrics['distance'] is None.  *)
(***************************************************************************)
NoMatch == <<>>

\* round(n / d, 1 digit) of a quotient given in tenths: ties go to even.
RoundHalfEven(n, d) ==
    LET floor == n \div d
        rem == n % d
    IN  IF 2 * rem > d THEN floor + 1
        ELSE IF 2 * rem < d THEN floor
        ELSE IF floor % 2 = 0 THEN floor ELSE floor + 1

\* The body of the try block: total_minutes / pace_per_km, rounded.
estimated_distance(duration, avg_pace) ==
    LET total_sec == 3600 * duration[1] + 60 * duration[2] + duration[3]
        pace_per_km_sec == 60 * avg_pace[1] + avg_pace[2]
    IN  IF pace_per_km_sec = 0 THEN Raises("ZeroDivisionError")
        ELSE Returns(RoundHalfEven(10 * total_sec, pace_per_km_sec))

\* parse_metrics(text, week, day), for a text in which the duration pattern
\* matches duration, the pace pattern avg_pace and the "X km | Time:"
\* pattern the distance explicit (None: not found).
parse_metrics(duration, avg_pace, explicit) ==
    LET est == IF duration # NoMatch /\ avg_pace # NoMatch
               THEN estimated_distance(duration, avg_pace)
               ELSE Returns(None)
        caught == est.exc \in {"ValueError", "ZeroDivisionError"}
        derived == IF est.exc = "" /\ duration # NoMatch /\ avg_pace # NoMatch
                      /\ 10 <= est.val /\ est.val <= 150
                   THEN est.val ELSE None
    IN  IF est.exc # "" /\ ~caught THEN Raises(est.exc)
        ELSE Returns([duration |-> duration,
                      avg_pace |-> avg_pace,
                      distance |-> IF derived = None THEN explicit ELSE derived])

(***************************************************************************)
(* Specification SpecPace: the pace functions called on pace settings that *)
(* include a zero pace, and parse_metrics on OCR texts.                    *)
(***************************************************************************)
RunningPaces == {<<0, 0>>, <<0, 30>>, <<7, 30>>, <<15, 59>>}
WalkingPaces == {<<0, 0>>, <<8, 0>>, <<11, 0>>, <<20, 59>>}
Durations == {NoMatch, <<0, 0, 0>>, <<0, 38, 18>>, <<1, 8, 9>>}
AvgPaces == {NoMatch, <<0, 0>>, <<0, 30>>, <<9, 2>>, <<11, 20>>}
ExplicitDistances == {None, 52}

NotCalled == Raises("not called")

InitPace ==
    /\ WritersIdle
    /\ SessionsIdle
    /\ LogIdle
    /\ dsession = NoSession
    /\ dspeed = <<0, 0>>
    /\ fatigue = NoResult
    /\ simple = NoResult
    /\ \E running \in RunningPaces, walking \in WalkingPaces :
           session_state = [NoDashboard EXCEPT !.running_pace_min = running[1],
                                               !.running_pace_sec = running[2],
                                               !.walking_pace_min = walking[1],
                                               !.walking_pace_sec = walking[2]]
    /\ result = [kind |-> "pace", running_speed |-> NotCalled,
                 walking_speed |-> NotCalled, text |-> <<>>, metrics |-> NotCalled]

\* get_current_base_speed_kmh()
GetRunningSpeed ==
    /\ result' = [result EXCEPT !.running_speed = get_running_speed_kmh(session_state)]
    /\ UNCHANGED <<session_state, dsession, dspeed, fatigue, simple, svars, lvars, cvars>>

\* get_current_walking_speed_m_per_min()
GetWalkingSpeed ==
    /\ result' = [result EXCEPT
                      !.walking_speed = get_walking_speed_m_per_min(session_state)]
    /\ UNCHANGED <<session_state, dsession, dspeed, fatigue, simple, svars, lvars, cvars>>

\* parse_metrics on one OCR text.
ParseMetrics(duration, avg_pace, explicit) ==
    /\ result' = [result EXCEPT
                      !.text = <<duration, avg_pace, explicit>>,
                      !.metrics = parse_metrics(duration, avg_pace, explicit)]
    /\ UNCHANGED <<session_state, dsession, dspeed, fatigue, simple, svars, lvars, cvars>>

NextPace ==
    \/ GetRunningSpeed
    \/ GetWalkingSpeed
    \/ \E duration \in Durations, avg_pace \in AvgPaces,
          explicit \in ExplicitDistances :
           ParseMetrics(duration, avg_pace, explicit)

SpecPace == InitPace /\ [][NextPace]_vars

(***************************************************************************)
(* Specification SpecConcurrent: two log_week calls on the same log file,  *)
(* each in its own process.  A call is three steps: load_logs(), the       *)
(* assignment of its week's record at the time read from the clock, and    *)
(* save_logs(); nothing orders the steps of one call against the other's.  *)
(***************************************************************************)
\* The weeks each call may be for: always different from the other's.
WriterWeeks == ("A" :> {1}) @@ ("B" :> {2, 10})

WriterArgs == {a \in LogArgs : a.pace # None}

log_week_entry_Mut(logs, week, args, timestamp) ==
    [k \in {PyStr(week)} |-> WeekRecord(args, timestamp)]

\* logs[str(week)] = {...} in log_week.
log_week_entry(logs, week, args, timestamp) ==
    DictSet(logs, PyStr(week), WeekRecord(args, timestamp))

\* logs = self.load_logs()
WriterLoad(w, week, args) ==
    /\ writer[w].pc = "idle"
    /\ writer' = [writer EXCEPT ![w] = [pc |-> "loaded", week |-> week,
                                        args |-> args,
                                        logs |-> load_logs(file).val]]
    /\ schedule' = Append(schedule, <<w, "load">>)
    /\ UNCHANGED <<lvars, svars, dvars>>

\* timestamp = datetime.now()...; logs[str(week)] = {...}
WriterAssign(w) ==
    /\ writer[w].pc = "loaded"
    /\ writer' = [writer EXCEPT ![w] =
                      IF @.logs.t # "dict" THEN [@ EXCEPT !.pc = "raised"]
                      ELSE [@ EXCEPT !.pc = "assigned",
                                     !.logs = PyDict(log_week_entry(@.d, writer[w].week,
                                                                    writer[w].args, now))]]
    /\ UNCHANGED <<schedule, lvars, svars, dvars>>

\* self.save_logs(logs)
WriterSave(w) ==
    /\ writer[w].pc = "assigned"
    /\ file' = save_logs(file, writer[w].logs)
    /\ writer' = [writer EXCEPT ![w].pc = "done"]
    /\ schedule' = Append(schedule, <<w, "save">>)
    /\ ret' = Returns(PyNone)
    /\ op' = [name |-> "log_week", week |-> writer[w].week, args |-> writer[w].args,
              existed |-> PyStr(writer[w].week) \in Entries(file), answer |-> <<>>,
              typed |-> NoOp.typed]
    /\ logged' = logged \cup {writer[w].week}
    /\ UNCHANGED <<now, export_file, svars, dvars>>

InitConcurrent ==
    /\ WritersIdle
    /\ SessionsIdle
    /\ DistIdle
    /\ file \in {NoFile, EmptyFile}
    /\ now = 0
    /\ op = NoOp
    /\ ret = Returns(PyNone)
    /\ logged = {}
    /\ export_file = NoFile

NextConcurrent ==
    \/ \E w \in Writers, args \in WriterArgs :
           \E week \in WriterWeeks[w] : WriterLoad(w, week, args)
    \/ \E w \in Writers : WriterAssign(w)
    \/ \E w \in Writers : WriterSave(w)
    \/ Tick

SpecConcurrent == InitConcurrent /\ [][NextConcurrent]_vars

(***************************************************************************)
(* Claims about generate_detailed_sessions (checked under SpecSessions).   *)
(***************************************************************************)
Constructed == pc \in {"idle", "loop", "done"}

Records == {workout_sessions[i] : i \in 1..Len(workout_sessions)}

C2_Totals ==
    /\ \A r \in Records :
           /\ r.total_run_time = r.run_minutes * r.sets
           /\ r.walk_minutes = 0 => r.total_workout_time = r.run_minutes
           /\ r.walk_minutes # 0 =>
                  r.total_workout_time = (r.run_minutes + r.walk_minutes) * r.sets
    /\ Len(workout_sessions) >= 6 =>
           /\ workout_sessions[6].run_minutes = 80
           /\ workout_sessions[6].walk_minutes = 50
           /\ workout_sessions[6].sets = 3
           /\ workout_sessions[6].total_run_time = 240
           /\ workout_sessions[6].total_workout_time = 390

C2_Witness ==
    /\ pc = "done"
    /\ Len(workout_sessions) >= 24
    /\ workout_sessions[6].total_workout_time = 390
    /\ workout_sessions[11].walk_minutes = 0
    /\ workout_sessions[11].total_workout_time = 280
    /\ workout_sessions[23].total_workout_time = 390
    /\ workout_sessions[24].total_workout_time = 260

\* C3: over the 21-session table the set counts are 16,12,10,6,4,3,5,3,2 for
\* sessions 1..9, 1 for the continuous sessions 11,14,17,20, 6 and 5 for
\* sessions 10 and 12, max(6, floor(8-(i-13)*0.5)) = 8,7 for 13 and 15,
\* max(5, floor(7-(i-16)*0.5)) = 7,6 for 16 and 18, and
\* max(3, floor(5-(i-19)*0.5)) = 5,4 for 19 and 21.
C3_TableSets == <<16, 12, 10, 6, 4, 3, 5, 3, 2, 6, 1, 5, 8, 1, 7, 7, 1, 6, 5, 1, 4>>

C4_WeekTable ==
    << << <<10, 20>>, <<20, 20>>, <<30, 20>> >>,
       << <<40, 30>>, <<50, 30>>, <<80, 50>> >>,
       << <<60, 30>>, <<80, 30>>, <<100, 30>> >>,
       << <<60, 20>>, <<280, 0>>, <<70, 20>> >>,
       << <<50, 15>>, <<320, 0>>, <<80, 20>> >>,
       << <<40, 10>>, <<350, 0>>, <<90, 20>> >>,
       << <<40, 15>>, <<200, 0>>, <<20, 10>> >> >>

C4_TableAndCopy ==
    /\ Constructed =>
           /\ Len(interval_progress) = 21
           /\ \A w \in 1..7 : \A d \in 1..3 :
                  interval_progress[3 * (w - 1) + d] = C4_WeekTable[w][d]
    /\ \A i \in 1..Len(workout_sessions) :
           i <= 21 =>
               LET r == workout_sessions[i] IN
               /\ r.run_minutes = interval_progress[i][1]
               /\ r.walk_minutes = interval_progress[i][2]
               /\ r.workout_type \in {"continuous_run", "interval_training"}
               /\ r.workout_type = "continuous_run" <=> r.walk_minutes = 0
               /\ r.workout_type = "continuous_run" <=> i \in {11, 14, 17, 20}

C4_Witness ==
    /\ pc = "done"
    /\ session_count = 21
    /\ Len(workout_sessions) = 21
    /\ workout_sessions[14].workout_type = "continuous_run"
    /\ workout_sessions[13].walk_minutes = 15
    /\ interval_progress # FormulaTable

\* C5: for every session i > 21, an odd i gives run 10.0, walk 3.0,
\* long_intervals and the rule engine's set count, which is the taper formula
\* max(3, floor(5-(i-19)*0.5)) and equals 3; an even i gives
\* run = 20 + 2*(i-21), walk 0, sets 1 and continuous_with_breaks.
C5_Extrapolation ==
    \A i \in 1..Len(workout_sessions) :
        i > 21 =>
            LET r == workout_sessions[i] IN
            /\ i % 2 = 1 =>
                   /\ r.run_minutes = 100
                   /\ r.walk_minutes = 30
                   /\ r.workout_type = "long_intervals"
                   /\ r.sets = Max(3, (10 - (i - 19)) \div 2)
                   /\ r.sets = 3
            /\ i % 2 = 0 =>
                   /\ r.run_minutes = 200 + 20 * (i - 21)
                   /\ r.walk_minutes = 0
                   /\ r.sets = 1
                   /\ r.workout_type = "continuous_with_breaks"

C5_Witness ==
    /\ pc = "done"
    /\ Len(workout_sessions) >= 32
    /\ workout_sessions[22].run_minutes = 220
    /\ workout_sessions[23].sets = 3
    /\ workout_sessions[31].sets = 3
    /\ workout_sessions[32].workout_type = "continuous_with_breaks"

(***************************************************************************)
(* Claims about the distance models (checked under SpecDist).              *)
(***************************************************************************)
\* C6: the fatigue model picks the reduction factor from the single-interval
\* run duration only: 1.00 up to 1.0 min, 0.90 up to 2.5, 0.81 up to 4.0 and
\* 0.729 above; run_distance_m = total_run_min * base_kmh * factor * 1000/60;
\* so for the same total run time no longer single interval gives a larger
\* run distance.
C6_Factor(run_min) ==
    CASE run_min <= 10 -> 1000
      [] run_min > 10 /\ run_min <= 25 -> 900
      [] run_min > 25 /\ run_min <= 40 -> 810
      [] run_min > 40 -> 729

C7_ConstantDominates ==
    (fatigue.done /\ simple.done) =>
        /\ simple.run_distance_m >= fatigue.run_distance_m
        /\ simple.total_distance_m >= fatigue.total_distance_m
        /\ dsession.run_min <= 10 =>
               /\ simple.run_distance_m = fatigue.run_distance_m
               /\ simple.total_distance_m = fatigue.total_distance_m
        /\ (dsession.run_min > 10 /\ dsession.total_run_min > 0) =>
               /\ simple.run_distance_m > fatigue.run_distance_m
               /\ simple.total_distance_m > fatigue.total_distance_m
        /\ simple.walk_distance_m = fatigue.walk_distance_m
        /\ simple.walk_distance_m = dsession.total_walk_min * dspeed[2]
        /\ dsession.walk_min = 0 => simple.walk_distance_m = 0

C7_Witness ==
    /\ fatigue.done
    /\ simple.done
    /\ dspeed[1] = 8
    /\ dsession.run_min = 10
    /\ dsession.walk_min = 15
    /\ simple.run_distance_m = fatigue.run_distance_m
    /\ simple.walk_distance_m > 0

C10_FailSoft ==
    (~file.exists \/ file.kind # "object") =>
        /\ op.name = "load_logs" =>
               /\ ret.exc = ""
               /\ ret.val.t = "dict"
               /\ DOMAIN ret.val.d = {}
        /\ op.name = "get_current_week" =>
               (ret.exc = "" /\ ret = get_current_week(NoFile))
        /\ op.name = "adjust_plan" =>
               (ret.exc = "" /\ ret = adjust_plan(NoFile))
        /\ op.name = "predict_5k" =>
               (ret.exc = "" /\ ret = predict_5k(NoFile))

(***************************************************************************)
(* Claims about predict_5k and adjust_plan (checked under SpecAdvice).     *)
(***************************************************************************)
\* The weeks held in the log file and the record of one of them.
LoggedWeeks == {PyInt(k) : k \in Entries(file)}
LogOf(w) == load_logs(file).val.d[PyStr(w)]
PacedWeeks == {w \in LoggedWeeks : LogOf(w).pace # None}

\* C11: predict_5k() returns the 'Not enough data' text when no week is
\* logged and the 'No pace data available' text when weeks are logged but
\* none has a pace; otherwise the prediction is based on the highest-numbered
\* logged week that has a pace and reports current estimate = pace * 5.
C11_PredictBasis ==
    op.name = "predict_5k" =>
        /\ LoggedWeeks = {} =>
               (ret.exc = "" /\ ret.val.kind = "not_enough_data")
        /\ (LoggedWeeks # {} /\ PacedWeeks = {}) =>
               (ret.exc = "" /\ ret.val.kind = "no_pace_data")
        /\ PacedWeeks # {} =>
               /\ ret.exc = ""
               /\ ret.val.kind = "prediction"
               /\ ret.val.latest_week \in PacedWeeks
               /\ \A w \in PacedWeeks : w <= ret.val.latest_week
               /\ ret.val.current_5k_estimate = LogOf(ret.val.latest_week).pace * 5

\* The weekly improvement rate C12 states for a recovery value, in thousandths.
C12_Rate(recovery) ==
    IF recovery # None /\ recovery >= 8 THEN 30
    ELSE IF recovery # None /\ recovery <= 4 THEN 15
    ELSE 25

\* C12: for any logged week w in 1..7 with a pace, predict_5k() returns a
\* prediction text and never raises; its weekly improvement rate is 3% if the
\* week's recovery >= 8, 1.5% if recovery <= 4 and 2.5% otherwise, also when
\* the week has no recovery value; the projected time is
\* current_estimate * (1-rate)^(7-w), never above the current estimate, and
\* the projection lines appear only when w < 7.
C12_PredictRate ==
    (op.name = "predict_5k" /\ PacedWeeks # {}) =>
        LET w == SetMax(PacedWeeks)
            rate == C12_Rate(LogOf(w).recovery)
        IN  w \in 1..7 =>
                /\ ret.exc = ""
                /\ ret.val.kind = "prediction"
                /\ ret.val.weekly_improvement = rate
                /\ Len(ret.val.total_improvement_factor) = 7 - w
                /\ \A i \in 1..(7 - w) :
                       /\ ret.val.total_improvement_factor[i] = 1000 - rate
                       /\ ret.val.total_improvement_factor[i] <= 1000
                /\ ret.val.projection_lines <=> w < 7

\* The set of advice texts adjust_plan returned for week next_week.
AdviceFor(next_week) ==
    IF next_week \in DOMAIN ret.val.d
    THEN {ret.val.d[next_week][i] : i \in 1..Len(ret.val.d[next_week])}
    ELSE {}

\* The pace of the week before w, None when that week is not logged.
PrevPace(w) == IF (w - 1) \in LoggedWeeks THEN LogOf(w - 1).pace ELSE None

C13_RecoveryApplies(r) == r # None /\ (r < 6 \/ r > 8)

C13_PaceApplies(w) ==
    /\ w > 1
    /\ LogOf(w).pace # None
    /\ PrevPace(w) # None
    /\ \/ LogOf(w).pace < PrevPace(w)
       \/ LogOf(w).pace * 10 > PrevPace(w) * 11

C14_RecoveryAdvice ==
    op.name = "adjust_plan" =>
        /\ ret.exc = ""
        /\ \A w \in LoggedWeeks :
               w <= 6 =>
                   LET r == LogOf(w).recovery IN
                   /\ (r # None /\ r < 4) => AddRest \in AdviceFor(w + 1)
                   /\ (r # None /\ 4 <= r /\ r < 6) => EasierPace \in AdviceFor(w + 1)
                   /\ (r # None /\ r > 8) => RecoveringWell \in AdviceFor(w + 1)
                   /\ (r = None \/ r \in {6, 7, 8}) =>
                          AdviceFor(w + 1) \cap {AddRest, EasierPace, RecoveringWell,
                                                 IncreaseIntensity} = {}

C14_Witness ==
    /\ op.name = "adjust_plan"
    /\ ret.exc = ""
    /\ LoggedWeeks = {1, 6}
    /\ LogOf(1).recovery = 4
    /\ LogOf(6).recovery = 8
    /\ EasierPace \in AdviceFor(2)
    /\ AdviceFor(7) = {}

\* C15: for a logged week w <= 6 with recovery >= 9, the entry for week w+1
\* includes the 'Consider slightly increasing intensity or adding extra
\* workout' advice.
C15_IncreaseAdvice ==
    op.name = "adjust_plan" =>
        /\ ret.exc = ""
        /\ \A w \in LoggedWeeks :
               (w <= 6 /\ LogOf(w).recovery # None /\ LogOf(w).recovery >= 9) =>
                   IncreaseIntensity \in AdviceFor(w + 1)

\* The position of an advice text in the order skipped, recovery, pace.
C16_Rank(text) ==
    IF text = ReduceIntensity THEN 1
    ELSE IF text \in {PaceImproved, PaceSlower} THEN 3
    ELSE 2

C17_Empty(f) ==
    /\ load_logs(f) = Returns(PyDict(EmptyDict))
    /\ get_current_week(f) = Returns(0)

\* The answer is y or yes in any letter case, between optional whitespace.
C17_Confirms(answer) ==
    \E i \in 1..Len(answer) : \E n \in {1, 3} :
        /\ i + n - 1 <= Len(answer)
        /\ \A k \in 1..Len(answer) :
               (k < i \/ k > i + n - 1) => answer[k] \in Whitespace
        /\ answer[i] \in {"y", "Y"}
        /\ n = 3 => answer[i + 1] \in {"e", "E"} /\ answer[i + 2] \in {"s", "S"}

C19_FailedSaveKeepsData ==
    [][op'.name = "save_logs_failed" => load_logs(file') = load_logs(file)]_vars

\* The content of the export target, read back with json.load.
C20_Exported == load_logs(export_file)

\* C20: export_logs(filename) writes to the target file exactly the mapping
\* load_logs() returns (same per-week schema and values), leaves the log
\* file itself unchanged, and on a write error returns an error message
\* instead of raising.
C20_Export ==
    [][/\ op'.name = "export_logs" =>
              /\ export_file'.exists
              /\ load_logs(export_file') = load_logs(file)
              /\ file' = file
              /\ ret' = Returns(Exported)
       /\ op'.name = "export_logs_io_error" =>
              /\ file' = file
              /\ ret'.exc = ""
              /\ ret'.val = ExportError]_vars

C20_Witness ==
    /\ op.name = "export_logs"
    /\ LoggedWeeks = {1, 2}
    /\ LogOf(1).pace = 65
    /\ LogOf(2).recovery = None
    /\ export_file.kind = "object"
    /\ C20_Exported = load_logs(file)
    /\ ret = Returns(Exported)

\* The entries of week w that are running sessions.
C21_RunEntries(w) == SelectSeq(base_plan[w], LAMBDA e : e.session > 0)

C23_PlanSets(i) == C21_RunEntries(WeekOf(i))[DayInWeek(i)].sets

\* The indices in 1..9 at which the constructor's set count and the one of
\* generate_detailed_sessions differ.
C23_Differing == {i \in 1..9 : C23_PlanSets(i) # workout_sessions[i].sets}

\* C23 as stated: the set-count table used by the constructor and the one
\* used by generate_detailed_sessions differ exactly at session indices 2, 5,
\* 6, 7, 8 and 9 and hold the same value at every other index in 1..9.
C23_TablesDiffer ==
    (pc = "done" /\ session_count >= 9) => C23_Differing = {2, 5, 6, 7, 8, 9}

\* C23 (amended): the two set-count tables differ exactly at session indices
\* 2, 4, 5, 6, 7, 8 and 9 and hold the same value at indices 1 and 3.
C23_TablesDifferAlso4 ==
    (pc = "done" /\ session_count >= 9) =>
        /\ C23_Differing = {2, 4, 5, 6, 7, 8, 9}
        /\ \A i \in {1, 3} : C23_PlanSets(i) = workout_sessions[i].sets

C23_Witness ==
    /\ pc = "done"
    /\ session_count >= 9
    /\ C23_PlanSets(4) = 7
    /\ workout_sessions[4].sets = 6
    /\ C23_PlanSets(2) = 13
    /\ workout_sessions[2].sets = 12
    /\ C23_PlanSets(3) = workout_sessions[3].sets

\* C29: for every count and every record returned by
\* generate_detailed_sessions(count), sets is an integer >= 1, and sets == 1
\* holds exactly when walk_minutes == 0 (every interval session, in the table
\* or extrapolated, has at least 2 sets; every continuous session exactly 1).
C29_SetsAndWalk ==
    Constructed =>
        \A r \in Records :
            /\ r.sets \in Nat
            /\ r.sets >= 1
            /\ r.sets = 1 <=> r.walk_minutes = 0

C29_Witness ==
    /\ pc = "done"
    /\ session_count = 24
    /\ Len(workout_sessions) = 24
    /\ workout_sessions[14].walk_minutes = 0
    /\ workout_sessions[14].sets = 1
    /\ workout_sessions[23].walk_minutes = 30
    /\ workout_sessions[23].sets = 3
    /\ workout_sessions[24].walk_minutes = 0
    /\ workout_sessions[24].sets = 1

\* The line is not a decimal number: it is not blank and, without its
\* surrounding whitespace and sign, is not made of digits around at most one
\* point.
C24_Unparsable(line) ==
    LET u == Unsigned(Strip(line)) IN
    /\ Strip(line) # <<>>
    /\ \/ \E i \in 1..Len(u) : u[i] \notin Digits \cup {"."}
       \/ Cardinality({i \in 1..Len(u) : u[i] = "."}) > 1
       \/ \A i \in 1..Len(u) : u[i] = "."

\* The decimal texts of 1..10.
C24_Text ==
    <<<<"1">>, <<"2">>, <<"3">>, <<"4">>, <<"5">>, <<"6">>, <<"7">>, <<"8">>,
      <<"9">>, <<"1", "0">>>>

\* The line writes the integer n of 1..10: its decimal text, possibly after
\* a plus sign, between optional whitespace (leading zeros are not typed).
C24_Writes(line, n) ==
    Strip(line) \in {C24_Text[n], <<"+">> \o C24_Text[n]}

\* C24: in the interactive 'log weekly performance' action, if the pace or
\* distance input cannot be parsed as a number, the error is reported,
\* log_week is not called, the log file is left exactly as it was and the
\* menu loop continues; an unparsable or out-of-range recovery input is
\* re-prompted until an integer in 1..10 is given, so every record written by
\* this action has recovery in 1..10.
C24_ParseFailure ==
    [][/\ (/\ op'.name \in {"cli_log_week", "cli_log_value_error"}
           /\ \/ C24_Unparsable(op'.typed.pace)
              \/ C24_Unparsable(op'.typed.distance)) =>
              /\ op'.name = "cli_log_value_error"
              /\ file' = file
              /\ ret'.exc = ""
       /\ op'.name = "cli_log_week" =>
              /\ load_logs(file').val.d[PyStr(op'.week)].recovery \in 1..10
              /\ load_logs(file').val.d[PyStr(op'.week)].recovery =
                     op'.args.recovery
              /\ \E i \in 1..Len(op'.typed.recovery) :
                     /\ C24_Writes(op'.typed.recovery[i], op'.args.recovery)
                     /\ \A j \in 1..(i - 1) : \A n \in 1..10 :
                            ~C24_Writes(op'.typed.recovery[j], n)]_vars

C24_Witness ==
    /\ op.name = "cli_log_value_error"
    /\ op.typed.pace = <<"6", ".", "5">>
    /\ op.typed.distance = <<"5", "k">>
    /\ LoggedWeeks = {1, 2}
    /\ LogOf(2).recovery = 3

\* C28: starting from an empty log and using only the interactive menu, the
\* set of logged weeks is at every point exactly {1,...,k} for some
\* 0 <= k <= 7: each successful log action writes week get_current_week()+1,
\* logging is refused once get_current_week() >= 7, and no week is ever
\* skipped or overwritten.
C28_Contiguous ==
    [][/\ \E k \in 0..7 : {PyInt(key) : key \in Entries(file')} = 1..k
       /\ op'.name = "cli_log_week" =>
              /\ op'.week = get_current_week(file).val + 1
              /\ ~op'.existed
              /\ Entries(file') = Entries(file) \cup {PyStr(op'.week)}
              /\ \A key \in Entries(file) :
                     load_logs(file').val.d[key] = load_logs(file).val.d[key]
       /\ (get_current_week(file).val >= 7 /\ op'.name # "cli_reset_plan") =>
              file' = file
       /\ op'.name = "cli_log_completed" <=>
              (op'.name \notin {"cli_show", "cli_reset_plan"}
               /\ get_current_week(file).val >= 7)]_vars

C28_Witness ==
    /\ op.name = "cli_log_completed"
    /\ LoggedWeeks = 1..7
    /\ get_current_week(file) = Returns(7)

\* The plan table of the dashboard.
PlanRows == session_state.training_df

\* C22: after any dashboard edit of a row's Run, Walk or Sets values, every
\* row's stored totals equal the session formulas applied to the overridden
\* values: Total Run == Run * Sets, and Total Workout == Run when Walk == 0,
\* else (Run + Walk) * Sets; no row keeps a stale total.
C22_TotalsAfterEdit ==
    result.kind = "edit" =>
        \A i \in 1..Len(PlanRows) :
            /\ PlanRows[i].Total_Run_min = PlanRows[i].Run_min * PlanRows[i].Sets
            /\ PlanRows[i].Total_Workout_min =
                   IF PlanRows[i].Walk_min = 0 THEN PlanRows[i].Run_min
                   ELSE (PlanRows[i].Run_min + PlanRows[i].Walk_min) * PlanRows[i].Sets

\* C30: starting from the default 21-session plan, after any sequence of
\* 'Add Session' and 'Remove Last' actions the plan has n >= 1 rows numbered
\* Session = 1..n with no gaps or duplicates, every row has
\* Week = ((Session-1)//3)+1, each added row has Day 1/2/4 by its position in
\* the week and totals consistent with its defaults (Run 5.0, Walk 1.5,
\* Sets 6 -> Total Run 30.0, Total Workout 39.0), and 'Remove Last' leaves
\* the plan unchanged when only one row remains.
C30_AddRemove ==
    [][LET df == session_state.training_df
           new == session_state'.training_df
           n == Len(new)
       IN  /\ n >= 1
           /\ \A i \in 1..n :
                  /\ new[i].Session = i
                  /\ new[i].Week = ((i - 1) \div 3) + 1
                  /\ new[i].Day = <<1, 2, 4>>[((i - 1) % 3) + 1]
           /\ result'.kind = "add_session" =>
                  /\ n = Len(df) + 1
                  /\ SubSeq(new, 1, n - 1) = df
                  /\ new[n].Run_min = 50 /\ new[n].Walk_min = 15 /\ new[n].Sets = 6
                  /\ new[n].Total_Run_min = 300
                  /\ new[n].Total_Workout_min = 390
           /\ result'.kind = "remove_last" =>
                  /\ Len(df) > 1
                  /\ new = SubSeq(df, 1, Len(df) - 1)
           /\ result'.kind = "remove_last_warning" => Len(df) = 1 /\ new = df
           /\ (Len(df) = 1 /\ result'.kind \in {"remove_last", "remove_last_warning"})
                  => new = df]_vars

C30_Witness ==
    /\ result.kind = "add_session"
    /\ Len(PlanRows) = 23
    /\ PlanRows[23].Session = 23
    /\ PlanRows[23].Week = 8
    /\ PlanRows[23].Day = 2
    /\ PlanRows[23].Total_Workout_min = 390

\* The rows of the distance table on display.
C25_Rows == result.rows

\* The dashboard's speed multiplier for a run interval, in thousandths.
C25_Band(run_min) ==
    CASE run_min <= 10 -> 1000
      [] run_min > 10 /\ run_min <= 25 -> 900
      [] run_min > 25 /\ run_min <= 50 -> 800
      [] run_min > 50 /\ run_min <= 100 -> 750
      [] run_min > 100 -> 700

\* C25: the dashboard distance calculation uses the base running speed
\* unchanged when fixed-pace mode is on; otherwise it multiplies the base
\* speed by 1.0 (run <= 1 min), 0.9 (<= 2.5), 0.8 (<= 5), 0.75 (<= 10) or 0.7
\* (> 10).  This five-band curve is not the analysis module's four-tier
\* curve: the two agree exactly for run intervals of at most 2.5 minutes.
C25_SpeedCurve ==
    result.kind = "distances" =>
        LET base == get_running_speed_kmh(session_state).val IN
        /\ Len(C25_Rows) = Len(PlanRows)
        /\ \A i \in 1..Len(C25_Rows) :
               LET run_min == PlanRows[i].Run_min
                   band == C25_Band(run_min)
               IN  /\ session_state.fixed_pace_mode =>
                          C25_Rows[i].speed_kmh = base
                   /\ ~session_state.fixed_pace_mode =>
                          /\ C25_Rows[i].speed_kmh.num * base.den * 1000 =
                                 base.num * band * C25_Rows[i].speed_kmh.den
                          /\ C25_Rows[i].factor = band
                   /\ (band = ReductionFactor(run_min)) <=> (run_min <= 25)

C25_Witness ==
    /\ result.kind = "distances"
    /\ ~session_state.fixed_pace_mode
    /\ session_state.running_pace_min = 6
    /\ \E i \in 1..Len(C25_Rows) : C25_Rows[i].Run_min = 25 /\ C25_Rows[i].factor = 900
    /\ \E i \in 1..Len(C25_Rows) : C25_Rows[i].speed_kmh = Rat(7, 1)
    /\ \E i \in 1..Len(C25_Rows) : C25_Rows[i].factor = 800 /\ C25_Rows[i].speed_kmh = Rat(8, 1)
    /\ \E i \in 1..Len(C25_Rows) : C25_Rows[i].factor = 750
    /\ \E i \in 1..Len(C25_Rows) : C25_Rows[i].factor = 1000

\* C26: pace-to-speed conversion never divides by zero.
\* get_running_speed_kmh returns 60/pace when the pace total is > 0 and 8.0
\* km/h otherwise; get_walking_speed_m_per_min returns (60/pace)*1000/60
\* when the pace is > 0 and 90 m/min otherwise; in OCR parsing a zero pace
\* leaves the derived distance null instead of raising.
C26_NoDivisionByZero ==
    result.kind = "pace" =>
        LET running_sec == 60 * session_state.running_pace_min
                               + session_state.running_pace_sec
            walking_sec == 60 * session_state.walking_pace_min
                               + session_state.walking_pace_sec
            speed == result.running_speed
            walk == result.walking_speed
            metrics == result.metrics
        IN  /\ speed.exc # "not called" =>
                   /\ speed.exc = ""
                   /\ running_sec > 0 => speed.val.num * running_sec = 3600 * speed.val.den
                   /\ running_sec <= 0 => speed.val.num = 8 * speed.val.den
            /\ walk.exc # "not called" =>
                   /\ walk.exc = ""
                   /\ walking_sec > 0 => walk.val.num * walking_sec = 60000 * walk.val.den
                   /\ walking_sec <= 0 => walk.val.num = 90 * walk.val.den
            /\ metrics.exc # "not called" =>
                   /\ metrics.exc = ""
                   /\ (result.text[1] # <<>> /\ result.text[2] = <<0, 0>>) =>
                          metrics.val.distance = result.text[3]

C26_Witness ==
    /\ result.kind = "pace"
    /\ session_state.running_pace_min = 0 /\ session_state.running_pace_sec = 0
    /\ session_state.walking_pace_min = 0 /\ session_state.walking_pace_sec = 0
    /\ result.running_speed = Returns(Rat(8, 1))
    /\ result.walking_speed = Returns(Rat(90, 1))
    /\ result.text = <<<<0, 38, 18>>, <<0, 0>>, None>>
    /\ result.metrics.exc = ""
    /\ result.metrics.val.distance = None

\* The position of a step of a call in the schedule (0: not taken yet).
C27_At(w, step) ==
    IF \E i \in 1..Len(schedule) : schedule[i] = <<w, step>>
    THEN CHOOSE i \in 1..Len(schedule) : schedule[i] = <<w, step>>
    ELSE 0

\* C27: the log store has no locking.  When two log_week calls for
\* different weeks run against the same log file and both load the file
\* before either saves, the file afterwards holds only the week of the call
\* that saved last (the other update is lost); when the two calls run one
\* after the other, both weeks are present.
C27_LostUpdate ==
    \A first \in Writers, last \in Writers :
        (/\ first # last
         /\ writer[first].pc = "done" /\ writer[last].pc = "done"
         /\ C27_At(first, "save") < C27_At(last, "save")) =>
            /\ writer[first].week # writer[last].week
            /\ C27_At(last, "load") < C27_At(first, "save") =>
                   LoggedWeeks = {writer[last].week}
            /\ C27_At(first, "save") < C27_At(last, "load") =>
                   LoggedWeeks = {writer[first].week, writer[last].week}

C27_Witness ==
    /\ schedule = <<<<"A", "load">>, <<"B", "load">>, <<"A", "save">>, <<"B", "save">>>>
    /\ writer["A"].pc = "done" /\ writer["B"].pc = "done"
    /\ logged = {1, 2}
    /\ LoggedWeeks = {2}

====
